---- MODULE Spec2Model ----
(***************************************************************************)
(* Model of DefaultAIFuncManagerImpl (ghostos/core/aifunc/manager.py): the *)
(* think loop of execute, nested run, parallel_run over a thread pool, the *)
(* shared result store and destroy.                                        *)
(***************************************************************************)
EXTENDS Integers, FiniteSets, Sequences, TLC

\* ---------------------------------------------------------------- bounds
MaxManagers == 3
MaxDepthBound == 1
MaxStepBound == 1
MaxThinks == 2
MaxDestroyCalls == 2

\* ------------------------------------------------------ program constants
DefaultMaxStep == 10
DefaultMaxDepth == 10

Ids == 0 .. (MaxManagers - 1)
MaxDepthValues == 0 .. MaxDepthBound
MaxStepValues == 0 .. MaxStepBound
Keys == {"a", "b"}
NoStep == -1
NoId == -1

\* ------------------------------------------------------------- values
None == [tag |-> "None", by |-> ""]
ResultTags == {"Declared", "Other", "Invalid"}
MkResult(tag, id) == [tag |-> tag, by |-> id]
EmptyStore == [k \in Keys |-> None]

\* isinstance(result, AIFuncResult): true of an instance of the declared
\* result type and of an instance of any other AIFuncResult subclass.
IsAIFuncResult(r) == r.tag \in {"Declared", "Other"}

\* manager.py:112  result is not None and not isinstance(result, AIFuncResult)
ResultInvalid(r) == r # None /\ ~IsAIFuncResult(r)

\* manager.py:106  self._max_step != 0 and step > self._max_step
StepLimitExceededMut(step, max_step) == max_step # 0 /\ step >= max_step
StepLimitExceededOff(step, max_step) == FALSE
StepLimitExceeded(step, max_step) == max_step # 0 /\ step > max_step

\* manager.py:102,110  the loop is left when think reports finished
LoopExitMut(finished, step) == finished /\ step > 1
LoopExit(finished, step) == finished

\* manager.py:39  step and step.depth > self._max_depth
DepthExceededMut(exec_step, max_depth) == exec_step # NoStep /\ exec_step >= max_depth
DepthExceeded(exec_step, max_depth) == exec_step # NoStep /\ exec_step > max_depth

\* ExecFrame / ExecStep (ghostos/core/aifunc/interfaces.py)
FromFuncDepth == 0
NewFrameDepth(stepDepth) == stepDepth + 1
NewStepDepth(frameDepth) == frameDepth

\* manager.py:129-132  frame of a run launched from a manager
RunFrameDepthMut(exec_step) == FromFuncDepth
RunFrameDepth(exec_step) == IF exec_step # NoStep THEN NewFrameDepth(exec_step) ELSE FromFuncDepth

\* manager.py:47-54  the container handed to the sub manager
SubManagerContainer(parentContainer, newId) == parentContainer

\* manager.py:47-54  max_step is not passed on: the constructor default applies
SubManagerMaxStep(parentMaxStep) == DefaultMaxStep

\* manager.py:53  max_depth=self._max_depth
SubManagerMaxDepthMut(parentMaxDepth) == DefaultMaxDepth
SubManagerMaxDepth(parentMaxDepth) == parentMaxDepth

VARIABLES mgr, containers, store, cfg, threads, stack, thread, ball

vars == <<mgr, containers, store, cfg, threads, stack, thread, ball>>

NoCall == [kind |-> "none", keys |-> {}, workers |-> {}, pc |-> "", results |-> EmptyStore,
           collected |-> {}, error |-> "", issuer |-> NoId]
NoLast == [kind |-> "none", status |-> "", keys |-> {}, workers |-> {}, results |-> EmptyStore,
           collected |-> {}, value |-> None, error |-> "", child |-> NoId,
           frameDepth |-> NoStep, chainNo |-> 0]

Blank == [kind |-> "unused", caller |-> NoId, issuer |-> NoId, key |-> "", viaPR |-> FALSE,
          container |-> NoId, exec_step |-> NoStep, max_depth |-> 0, max_step |-> 0,
          values |-> EmptyStore, hasAttrs |-> FALSE, destroyed |-> FALSE,
          destroyCalls |-> 0, destroyRaised |-> FALSE,
          pc |-> "idle", step |-> 0, frameDepth |-> NoStep, frameSteps |-> 0, thinks |-> 0,
          result |-> None, finished |-> FALSE, firstFinished |-> FALSE, firstResult |-> None,
          outcome |-> "none", returned |-> None, error |-> "", chainNo |-> 0,
          call |-> NoCall, lastCall |-> NoLast]

\* ------------------------------------------------- conversation threads
\* GoThreadInfo (core/runtime/threads.py) and MsgThread
\* (core/session/threads.py): the id fields of a thread object, and the
\* rest of the object as one value.  uuid() gives an id nobody has yet;
\* NoneId stands for None.
MaxForks == 3
NoneId == "None"
Uuids == <<"u1", "u2", "u3", "u4", "u5", "u6">>
GivenTids == {NoneId, "", "x"}
ThreadClasses == {"GoThreadInfo", "MsgThread"}
NoThreads == [cls |-> "", objs |-> <<>>, uuids |-> 0, given |-> <<>>]

\* truth value of an Optional[str] in a condition: None and "" are false
Truthy(x) == x # NoneId /\ x # ""

\* threads.py:254 (runtime), 257 (session)  tid = tid if tid else uuid()
ForkId(tid, fresh) == IF Truthy(tid) THEN tid ELSE fresh

\* threads.py:255 (runtime)  root_id = self.root_id if self.root_id else self.id
GoThreadInfoForkRootIdMut(t) == t.id
GoThreadInfoForkRootId(t) == IF Truthy(t.root_id) THEN t.root_id ELSE t.id

\* threads.py:258 (session)  root_id = self.root_id if self.root_id else self.id
MsgThreadForkRootId(t) == IF Truthy(t.root_id) THEN t.root_id ELSE t.id

\* threads.py:253-258 (runtime)  GoThreadInfo.fork: a deep copy of self with
\* id, root_id and parent_id replaced
GoThreadInfoFork(t, tid, fresh) ==
    [t EXCEPT !.id = ForkId(tid, fresh), !.root_id = GoThreadInfoForkRootId(t),
              !.parent_id = t.id]

\* threads.py:256-261 (session)  MsgThread.fork
MsgThreadFork(t, tid, fresh) ==
    [t EXCEPT !.id = ForkId(tid, fresh), !.root_id = MsgThreadForkRootId(t),
              !.parent_id = t.id]

\* threads.py:91-108  a thread nobody forked: id from uuid(), root_id and
\* parent_id None; body stands for its turns
NewThread(id, body) ==
    [id |-> id, root_id |-> NoneId, parent_id |-> NoneId, body |-> body, src |-> 0]

\* ------------------------------------------------- the turns of a thread
\* A Turn (threads.py:17-42): its id, its event, how many messages were
\* added to it, its pycontext.  NoEvent and NonePy stand for None;
\* DefaultPy is PyContext().
MaxTurns == 2
MaxAdded == 1
NoEvent == "NoEvent"
Events == {NoEvent, "e1"}
NonePy == "NonePy"
DefaultPy == "py0"
PyContexts == {DefaultPy, "py1"}
NoTurn == [turn_id |-> NoneId, event |-> NoEvent, added |-> 0, pycontext |-> NonePy]

\* threads.py:44-59  Turn.new(event, turn_id, pycontext); fresh is what
\* the default factory of turn_id gives
TurnNewId(event, turn_id) == IF turn_id = NoneId /\ event # NoEvent THEN event ELSE turn_id
TurnNewUsesUuid(event, turn_id) == ~Truthy(TurnNewId(event, turn_id))
TurnNew(event, turn_id, pycontext, fresh) ==
    [turn_id |-> IF Truthy(TurnNewId(event, turn_id)) THEN TurnNewId(event, turn_id) ELSE fresh,
     event |-> event,
     added |-> 0,
     pycontext |-> IF pycontext # NonePy THEN pycontext ELSE DefaultPy]

\* threads.py:60-63  Turn.append(*messages, pycontext): n messages
TurnAppend(turn, n, pycontext) ==
    [turn EXCEPT !.added = @ + n,
                 !.pycontext = IF pycontext # NonePy THEN pycontext ELSE @]

\* threads.py:122-151  new(event, pycontext, thread_id, root_id, parent_id):
\* the given thread id goes into the data under the key "thread_id",
\* which is not a field of the model, so the id comes from the default
\* factory; the first turn is made with turn_id=thread_id
ThreadNewId(thread_id, fresh) == fresh
ThreadNew(cls, event, pycontext, thread_id, root_id, parent_id) ==
    LET n == IF TurnNewUsesUuid(event, thread_id) THEN 1 ELSE 0 IN
        [cls |-> cls,
         id |-> ThreadNewId(thread_id, Uuids[n + 1]),
         root_id |-> root_id,
         parent_id |-> parent_id,
         on_created |-> TurnNew(event, thread_id, pycontext, Uuids[1]),
         history |-> <<>>,
         current |-> NoTurn,
         uuids |-> n + 1]

\* threads.py:153-162  last_turn
LastTurn(t) ==
    IF t.current # NoTurn THEN t.current
    ELSE IF Len(t.history) > 0 THEN t.history[Len(t.history)]
    ELSE t.on_created

\* threads.py:173-176  get_pycontext
GetPycontext(t) == LastTurn(t).pycontext

\* threads.py:220-222  self.history.append(self.current); self.current = None
ArchiveCurrentMut(t) == [t EXCEPT !.current = NoTurn]
ArchiveCurrent(t) ==
    IF t.current # NoTurn
    THEN [t EXCEPT !.history = Append(@, t.current), !.current = NoTurn]
    ELSE t

\* threads.py:223-225  without a pycontext the new turn takes the one of
\* the last turn
NewTurnPycontextMut(t, pycontext) == pycontext
NewTurnPycontext(t, pycontext) == IF pycontext = NonePy THEN LastTurn(t).pycontext ELSE pycontext

\* threads.py:207-229  new_turn(event, turn_id, pycontext)
NewTurn(t, event, turn_id, pycontext) ==
    LET t1 == ArchiveCurrent(t)
        py == NewTurnPycontext(t1, pycontext)
        used == TurnNewUsesUuid(event, turn_id)
    IN  [t1 EXCEPT !.current = TurnNew(event, turn_id, py, Uuids[t.uuids + 1]),
                   !.uuids = IF used THEN @ + 1 ELSE @]

\* threads.py:231-241 (runtime)  append(*messages, pycontext)
GoThreadInfoAppend(t, n, pycontext) ==
    LET t1 == IF t.current = NoTurn THEN NewTurn(t, NoEvent, NoneId, NonePy) ELSE t IN
        IF n > 0 \/ pycontext # NonePy
        THEN [t1 EXCEPT !.current = TurnAppend(@, n, pycontext)]
        ELSE t1

\* threads.py:232-244 (session)  append(*messages, pycontext)
MsgThreadAppend(t, n, pycontext) ==
    LET t1 == IF t.current = NoTurn THEN NewTurn(t, NoEvent, NoneId, NonePy) ELSE t
        t2 == IF n > 0 THEN [t1 EXCEPT !.current = TurnAppend(@, n, NonePy)] ELSE t1
    IN  IF pycontext # NonePy THEN [t2 EXCEPT !.current.pycontext = pycontext] ELSE t2

\* threads.py:178-181  update_pycontext(pycontext)
UpdatePycontext(t, pycontext) ==
    LET t1 == IF t.current = NoTurn THEN NewTurn(t, NoEvent, NoneId, NonePy) ELSE t IN
        [t1 EXCEPT !.current.pycontext = pycontext]

\* threads.py:188  copied = self.model_copy(deep=True): with a deep copy
\* the history list of the copy is not the list of self
SharesHistoryMut(deep) == TRUE
SharesHistory(deep) == ~deep

\* threads.py:183-194  get_updated_copy (update_history in the session
\* module): self after the call, what is returned, and whether the
\* returned object is self
GetUpdatedCopy(t) ==
    IF t.current = NoTurn
    THEN [self |-> t, ret |-> t, same |-> TRUE]
    ELSE [self |-> IF SharesHistory(TRUE)
                   THEN [t EXCEPT !.history = Append(@, t.current)] ELSE t,
          ret |-> [t EXCEPT !.history = Append(@, t.current), !.current = NoTurn],
          same |-> FALSE]

NoArgs == [thread_id |-> NoneId, root_id |-> NoneId, parent_id |-> NoneId,
           event |-> NoEvent, pycontext |-> NonePy]
NoObj == ThreadNew("", NoEvent, NonePy, NoneId, NoneId, NoneId)
NoThread == [op |-> "", obj |-> NoObj, orig |-> NoObj, ret |-> NoObj, twice |-> NoObj,
             same |-> FALSE, args |-> NoArgs]

\* ------------------------------------------------ the ball and its moves
\* BallApi (prototypes/spherogpt/bolt/shell_impl.py): the saved moves by
\* name, the cache file, the names save_move was called with, the Move
\* being built, and the movements the runtime was sent.
MaxSent == 2
MoveNames == {"spin", "dance"}
Descriptions == {"d1", "d2"}
MoveEvents == {"on_collision"}
NoSaved == [kind |-> "None", name |-> "", description |-> "", move_meta |-> {}]
NoMove == [kind |-> "None", run_immediately |-> FALSE, move_added |-> 0, buffer |-> {}]
NoBallCall == [op |-> "", name |-> "", description |-> "", outcome |-> "", error |-> "",
               sent |-> 0]
NoBall == [moves |-> [n \in MoveNames |-> NoSaved], file |-> [n \in MoveNames |-> NoSaved],
           saved |-> {}, move |-> NoMove, sent |-> 0, lastSent |-> {}, last |-> NoBallCall]

\* shell_impl.py:190,197  isinstance(move, MoveAdapter)
IsMoveAdapter(move) == move.kind = "MoveAdapter"

\* shell_impl.py:29-34  SavedMove.new(name, description, move.buffer)
SavedMoveNew(name, description, buffer) ==
    [kind |-> "SavedMove", name |-> name, description |-> description, move_meta |-> buffer]

\* shell_impl.py:44-45  self.moves[saved.name] = saved
AddSaved(moves, saved) == [moves EXCEPT ![saved.name] = saved]

\* shell_impl.py:189-194  run(move, stop_at_first): the call's outcome,
\* its error, and the movement handed to add_movement
BallApiRun(move) ==
    IF ~IsMoveAdapter(move)
    THEN [outcome |-> "raised", error |-> "TypeError", sends |-> 0, movement |-> {}]
    ELSE [outcome |-> "returned", error |-> "", sends |-> 1, movement |-> move.buffer]

\* shell_impl.py:217-221  run_move(name)
BallApiRunMove(moves, name) ==
    LET got == moves[name] IN
        IF got = NoSaved
        THEN [outcome |-> "raised", error |-> "NotImplementedError", sends |-> 0,
              movement |-> {}]
        ELSE BallApiRun(got)

\* Driver types: what a task class declares in __aifunc_driver__ (or
\* nothing), and what the constructor is given as default_driver (or nothing)
NoDriver == "None"
DefaultAIFuncDriverImpl == "DefaultAIFuncDriverImpl"
DeclaredDrivers == {NoDriver, "TaskDriver"}
DefaultDriverArgs == {NoDriver, "CustomDriver"}
LlmApiNames == {"", "gpt"}

\* manager.py:41  default_driver if default_driver else DefaultAIFuncDriverImpl
InitDefaultDriver(default_driver) ==
    IF default_driver # NoDriver THEN default_driver ELSE DefaultAIFuncDriverImpl

\* manager.py:121-126  the driver type execute instantiates for a task
GetDriverMut(declared, default_driver_type) == default_driver_type
GetDriver(declared, default_driver_type) ==
    IF declared # NoDriver THEN declared ELSE default_driver_type

\* manager.py:51  default_driver=self._default_driver_type
SubManagerDefaultDriver(parentDriverType) == parentDriverType

\* manager.py:52  llm_api_name=self._llm_api_name
SubManagerLlmApiName(parentName) == parentName

\* manager.py:49  step=step
SubManagerStep(step) == step

NoSub == [made |-> FALSE, raised |-> FALSE, given |-> NoStep, llm_api_name |-> "",
          default_driver_type |-> NoDriver, max_depth |-> 0, max_step |-> 0,
          exec_step |-> NoStep]
\* conversation states (threads) a driver may hand back; initialize gives
\* the first one
InitThread == 0
ThreadStates == 0 .. 2

\* manager.py:108  thread, result, finished = driver.think(self, thread, ...)
\* the local thread is replaced by the one think returned
ThinkThreadMut(current, returned) == current
ThinkThread(current, returned) == returned

NoExec == [pc |-> "idle", on |-> "", declared |-> NoDriver, driver |-> NoDriver,
           instances |-> 0, thinks |-> 0, thread |-> InitThread, passed |-> InitThread,
           lastOut |-> InitThread, finished |-> FALSE]

\* manager.py:19-42  the attributes a constructor call leaves on a manager
\* without a step
CfgOf(default_driver, llm_api_name, max_depth, max_step) ==
    [parent |-> [llm_api_name |-> llm_api_name,
                 default_driver_type |-> InitDefaultDriver(default_driver),
                 max_depth |-> max_depth, max_step |-> max_step, exec_step |-> NoStep],
     sub |-> NoSub, exec |-> NoExec]

\* The threads that touch the _values dict of one manager: the thread that
\* owns the manager (set, get, and the collecting loop of parallel_run) and
\* the pool threads of a parallel_run, one per key.
Threads == {"owner", "wa", "wb"}
Workers == {"wa", "wb"}
WorkerKey(w) == IF w = "wa" THEN "a" ELSE "b"
KeyWorker(k) == IF k = "a" THEN "wa" ELSE "wb"
NoArg == [key |-> "", value |-> None]
NoGot == [n |-> 0, key |-> "", value |-> None]

\* manager.py:36  self._values = {}, nobody inside it
StoreInit ==
    [values |-> EmptyStore, lastSet |-> EmptyStore, prevSet |-> EmptyStore,
     runWrote |-> {}, inside |-> {}, pc |-> [t \in Threads |-> "idle"],
     arg |-> [t \in Threads |-> NoArg], mode |-> "idle", collected |-> {},
     got |-> NoGot, before |-> EmptyStore, results |-> EmptyStore, lastPrun |-> "none"]

\* manager.py:19-42  __init__ of a manager whose depth check passed
NewManager(kind, container, exec_step, max_depth, max_step) ==
    [Blank EXCEPT !.kind = kind, !.container = container, !.exec_step = exec_step,
                  !.max_depth = max_depth, !.max_step = max_step,
                  !.values = EmptyStore, !.hasAttrs = TRUE, !.destroyed = FALSE]

Free(m) == {i \in Ids : m[i].kind = "unused"}
Min(S) == CHOOSE x \in S : \A y \in S : x <= y
NextId(m) == IF Free(m) = {} THEN MaxManagers ELSE Min(Free(m))
\* the n-th free id, counting from 0
NthFree(m, n) == CHOOSE i \in Free(m) : Cardinality({j \in Free(m) : j < i}) = n
Live == {i \in Ids : mgr[i].kind \in {"root", "run", "ctx"}}

\* A manager made by run is referenced only by run's local variable, and a
\* task's context manager only by the compiler of its step: the finished
\* children of p are unreachable once p's next operation begins, and what
\* a think made is unreachable once that think is over.
Unreachable(m, p) ==
    LET dead == {i \in Ids : m[i].caller = p /\ m[i].pc = "done"
                                /\ m[i].kind \in {"run", "failed"}}
    IN  dead \cup {x \in Ids : m[x].kind = "ctx" /\ m[x].caller \in dead}
Forget(m, p) == [i \in Ids |-> IF i \in Unreachable(m, p) THEN Blank ELSE m[i]]

UnreachableAfterThink(m, e) ==
    LET ctxs == {x \in Ids : m[x].kind = "ctx" /\ m[x].caller = e}
    IN  ctxs \cup Unreachable(m, e) \cup UNION {Unreachable(m, x) : x \in ctxs}
ForgetThink(m, e) ==
    [i \in Ids |-> IF i \in UnreachableAfterThink(m, e) THEN Blank
                   ELSE IF i = e THEN [m[e] EXCEPT !.lastCall = NoLast]
                   ELSE m[i]]

\* the record of the operation a manager performed last
ClearExec(r) ==
    [r EXCEPT !.step = 0, !.finished = FALSE, !.result = None, !.frameDepth = NoStep,
              !.frameSteps = 0, !.thinks = 0, !.outcome = "none", !.returned = None,
              !.error = "", !.firstFinished = FALSE, !.firstResult = None]

\* manager.py:19-42  a root manager constructed with a configured max_depth
\* and max_step, no step, and its own container
Init ==
    /\ \E d \in MaxDepthValues, s \in MaxStepValues :
          mgr = [i \in Ids |-> IF i = 0 THEN NewManager("root", 0, NoStep, d, s) ELSE Blank]
    /\ containers = [c \in Ids |-> [destroyed |-> FALSE, releases |-> 0]]
    /\ store = StoreInit
    /\ thread = NoThread
    /\ ball = NoBall
    /\ threads = NoThreads
    /\ stack = <<>>
    /\ cfg = CfgOf(NoDriver, "", DefaultMaxDepth, DefaultMaxStep)

\* manager.py:197-201  the root manager as the provider's factory makes it:
\* the constructor defaults for max_depth and max_step
InitPar ==
    /\ mgr = [i \in Ids |-> IF i = 0
                 THEN NewManager("root", 0, NoStep, DefaultMaxDepth, DefaultMaxStep)
                 ELSE Blank]
    /\ containers = [c \in Ids |-> [destroyed |-> FALSE, releases |-> 0]]
    /\ store = StoreInit
    /\ thread = NoThread
    /\ ball = NoBall
    /\ threads = NoThreads
    /\ stack = <<>>
    /\ cfg = CfgOf(NoDriver, "", DefaultMaxDepth, DefaultMaxStep)


\* ------------------------------------------------------------ container
\* Container.destroy (ghostos/container.py): releases the scope once; a
\* second call on the same container returns without releasing again.
ContainerDestroy(cs, c) ==
    IF cs[c].destroyed THEN cs
    ELSE [cs EXCEPT ![c] = [destroyed |-> TRUE, releases |-> @.releases + 1]]

\* ------------------------------------------------------------- destroy
\* manager.py:169-179.  The guard reads self._destroyed, which no statement
\* of the class ever sets after __init__; the four attributes are deleted.
\* destroyCalls counts the calls, destroyRaised tells whether the last one
\* raised (AttributeError: self._container is read after its deletion).
DestroyRec(r) ==
    IF r.destroyed THEN [r EXCEPT !.destroyCalls = @ + 1, !.destroyRaised = FALSE]
    ELSE IF ~r.hasAttrs
         THEN [r EXCEPT !.destroyCalls = @ + 1, !.destroyRaised = TRUE]
         ELSE [r EXCEPT !.destroyCalls = @ + 1, !.destroyRaised = FALSE,
                        !.hasAttrs = FALSE, !.values = EmptyStore]

DestroyContainers(cs, r) ==
    IF r.destroyed \/ ~r.hasAttrs THEN cs ELSE ContainerDestroy(cs, r.container)

\* manager.py:160-161
Get(r, k) == r.values[k]

\* manager.py:163-164
SetMut(r, k, v) == r
Set(r, k, v) == [r EXCEPT !.values[k] = v]

\* ------------------------------------------------------------- execute
\* manager.py:95-101  locals of a fresh execute call
BeginExecute(r, frameDepth, frameSteps) ==
    [r EXCEPT !.pc = "loop", !.step = 0, !.finished = FALSE, !.result = None,
              !.frameDepth = frameDepth, !.frameSteps = frameSteps, !.thinks = 0,
              !.outcome = "none", !.returned = None, !.error = "",
              !.firstFinished = FALSE, !.firstResult = None]

\* where control goes when execute returns or raises: back to the caller of
\* the root manager, or into the try/finally of run (manager.py:135-143)
EndExecuteMut(r, outcome, value, error) ==
    [r EXCEPT !.outcome = outcome, !.returned = value, !.error = error,
              !.pc = IF r.kind = "run"
                     THEN (IF outcome = "returned" THEN "store" ELSE "done")
                     ELSE "idle"]
EndExecuteStoreMut(r, outcome, value, error) ==
    [r EXCEPT !.outcome = outcome, !.returned = value, !.error = error,
              !.pc = IF r.kind = "run" THEN "store" ELSE "idle"]
EndExecute(r, outcome, value, error) ==
    [r EXCEPT !.outcome = outcome, !.returned = value, !.error = error,
              !.pc = IF r.kind = "run"
                     THEN (IF outcome = "returned" THEN "store" ELSE "finally")
                     ELSE "idle"]

\* manager.py:95-101  execute(fn) called on the root manager, no frame given
ExecuteRoot ==
    /\ mgr[0].kind = "root" /\ mgr[0].pc = "idle" /\ mgr[0].call.kind = "none"
    /\ mgr' = [Forget(mgr, 0) EXCEPT ![0] = [BeginExecute(@, FromFuncDepth, 0)
                                                EXCEPT !.lastCall = NoLast]]
    /\ UNCHANGED <<containers, store, cfg, threads, stack, thread, ball>>

\* manager.py:102-108  top of the loop up to the call of think
LoopStep(e) ==
    /\ mgr[e].pc = "loop"
    /\ mgr[e].step < MaxThinks
    /\ LET r == [mgr[e] EXCEPT !.step = @ + 1, !.frameSteps = @ + 1] IN
         mgr' = [mgr EXCEPT ![e] =
                    IF StepLimitExceeded(r.step, r.max_step)
                    THEN EndExecute(r, "raised", None, "StepLimit")
                    ELSE [r EXCEPT !.pc = "think", !.thinks = @ + 1]]
    /\ UNCHANGED <<containers, store, cfg, threads, stack, thread, ball>>

\* manager.py:108-115  think returns (thread, result, finished)
ThinkReturn(e, res, fin) ==
    /\ mgr[e].pc = "think"
    /\ LET m0 == ForgetThink(mgr, e)
           r == [m0[e] EXCEPT !.result = res, !.finished = fin,
                              !.firstFinished = IF mgr[e].thinks = 1 THEN fin ELSE @,
                              !.firstResult = IF mgr[e].thinks = 1 THEN res ELSE @] IN
         mgr' = [m0 EXCEPT ![e] =
                    IF LoopExit(fin, r.step)
                    THEN (IF ResultInvalid(res)
                          THEN EndExecute(r, "raised", None, "TypeMismatch")
                          ELSE EndExecute(r, "returned", res, ""))
                    ELSE [r EXCEPT !.pc = "loop"]]
    /\ UNCHANGED <<containers, store, cfg, threads, stack, thread, ball>>

\* manager.py:102-111  the loop has no try around think: what think raises
\* leaves execute at once
OnThinkRaiseMut(r) == [r EXCEPT !.pc = "loop", !.error = "ThinkError"]
OnThinkRaise(r) == EndExecute(r, "raised", None, "ThinkError")

\* manager.py:108  think raises: nothing in execute catches it
ThinkRaise(e) ==
    /\ mgr[e].pc = "think"
    /\ mgr' = [ForgetThink(mgr, e) EXCEPT ![e] = OnThinkRaise(@)]
    /\ UNCHANGED <<containers, store, cfg, threads, stack, thread, ball>>


\* ----------------------------------------------------------------- run
\* number of the launch in its chain of nested run calls (the caller of the
\* root manager is not part of any chain)
ChainNo(issuer) == IF issuer = NoId THEN 1 ELSE mgr[issuer].chainNo + 1

\* manager.py:129-134  self._exec_step is read, the frame and its first step
\* are made, and the sub manager is constructed (the constructor raises on
\* a step deeper than max_depth).  id is the child, p the manager run is
\* called on, issuer the manager whose think makes the call.
RunStartRec(c, p, k, issuer, viaPR) ==
    LET base == [Blank EXCEPT !.caller = p, !.issuer = issuer, !.key = k, !.viaPR = viaPR,
                              !.chainNo = ChainNo(issuer)]
        failed(err, fd, steps) ==
            [base EXCEPT !.kind = "failed", !.pc = "done", !.outcome = "raised",
                         !.error = err, !.frameDepth = fd, !.frameSteps = steps]
    IN  IF ~mgr[p].hasAttrs
        THEN failed("AttributeError", NoStep, 0)
        ELSE LET fd == RunFrameDepth(mgr[p].exec_step)
                 sd == NewStepDepth(fd)
             IN  IF DepthExceeded(sd, SubManagerMaxDepth(mgr[p].max_depth))
                 THEN failed("RecursionLimit", fd, 1)
                 ELSE [BeginExecute(base, fd, 1) EXCEPT
                          !.kind = "run",
                          !.container = SubManagerContainer(mgr[p].container, c),
                          !.exec_step = sd,
                          !.max_depth = SubManagerMaxDepth(mgr[p].max_depth),
                          !.max_step = SubManagerMaxStep(mgr[p].max_step),
                          !.hasAttrs = TRUE]

\* what the caller of run / parallel_run on p sees when the call is over
FinishCall(m, p, last) ==
    LET issuer == m[p].call.issuer
        m1 == [m EXCEPT ![p].call = NoCall, ![p].lastCall = last]
    IN  IF issuer = NoId THEN m1 ELSE [m1 EXCEPT ![issuer].pc = "think"]

\* the manager whose think issues a context call waits for it
Block(m, issuer) == IF issuer = NoId THEN m ELSE [m EXCEPT ![issuer].pc = "blocked"]

\* the caller's record when a new context call begins on p
BeginCall(m, issuer, p) ==
    LET m1 == Forget(m, p) IN
    [m1 EXCEPT ![p] = IF issuer = NoId THEN [ClearExec(@) EXCEPT !.lastCall = NoLast]
                      ELSE [@ EXCEPT !.lastCall = NoLast]]

\* manager.py:128-136  run(key, fn) called on p, up to the call of execute
StartRun(issuer, p, k) ==
    LET m0 == BeginCall(mgr, issuer, p)
        c == NextId(m0)
        rec == RunStartRec(c, p, k, issuer, FALSE)
    IN  /\ rec.kind = "failed" \/ c < MaxManagers
        /\ mgr' = IF rec.kind = "failed"
                  THEN [m0 EXCEPT ![p].lastCall =
                          [NoLast EXCEPT !.kind = "run", !.status = "raised", !.keys = {k},
                                         !.error = rec.error, !.frameDepth = rec.frameDepth,
                                         !.chainNo = rec.chainNo]]
                  ELSE Block([m0 EXCEPT ![c] = rec, ![p].call =
                          [NoCall EXCEPT !.kind = "run", !.keys = {k}, !.workers = {c},
                                         !.issuer = issuer]], issuer)
        /\ UNCHANGED <<containers, store, cfg, threads, stack, thread, ball>>

\* manager.py:138  the store written is self._values: self is the manager
\* run was called on, not the sub manager
RunStoreTargetMut(caller, child) == child
RunStoreTarget(caller, child) == caller

\* manager.py:138  self._values[key] = result
RunStore(c) ==
    /\ mgr[c].kind = "run" /\ mgr[c].pc = "store"
    /\ mgr' = [mgr EXCEPT ![RunStoreTarget(mgr[c].caller, c)] =
                              Set(@, mgr[c].key, mgr[c].returned),
                          ![c].pc = "finally"]
    /\ UNCHANGED <<containers, store, cfg, threads, stack, thread, ball>>

\* manager.py:139-143  finally: sub_manager.destroy(), then run returns the
\* result or lets the exception of execute through
RunFinally(c) ==
    /\ mgr[c].kind = "run" /\ mgr[c].pc = "finally"
    /\ containers' = DestroyContainers(containers, mgr[c])
    /\ LET m1 == [mgr EXCEPT ![c] = [ClearExec(DestroyRec(@)) EXCEPT
                                        !.pc = "done", !.outcome = mgr[c].outcome,
                                        !.returned = mgr[c].returned,
                                        !.error = mgr[c].error,
                                        !.frameDepth = mgr[c].frameDepth]]
           p == mgr[c].caller
       IN  mgr' = IF mgr[c].viaPR THEN m1
                  ELSE FinishCall(m1, p,
                          [NoLast EXCEPT !.kind = "run", !.status = mgr[c].outcome,
                                         !.keys = {mgr[c].key}, !.value = mgr[c].returned,
                                         !.error = mgr[c].error, !.child = c,
                                         !.frameDepth = mgr[c].frameDepth,
                                         !.chainNo = mgr[c].chainNo])
    /\ UNCHANGED <<store, cfg, threads, stack, thread, ball>>

\* -------------------------------------------------------- parallel_run
KeyIdx(k) == IF k = "a" THEN 0 ELSE 1
KeyRank(K, k) == Cardinality({j \in K : KeyIdx(j) < KeyIdx(k)})

\* manager.py:150-152  results = {}; the pool is made with one worker per
\* entry (ThreadPoolExecutor raises ValueError for max_workers = 0) and
\* every entry is submitted
StartParallelRun(issuer, p, K) ==
    /\ Cardinality(K) <= Cardinality(Free(Forget(mgr, p)))
    /\ LET m0 == BeginCall(mgr, issuer, p)
           idOf(k) == NthFree(m0, KeyRank(K, k))
           ids == {idOf(k) : k \in K}
           keyOf(i) == CHOOSE k \in K : idOf(k) = i
       IN  mgr' = IF K = {}
                  THEN [m0 EXCEPT ![p].lastCall =
                          [NoLast EXCEPT !.kind = "prun", !.status = "raised",
                                         !.error = "ValueError"]]
                  ELSE Block([i \in Ids |->
                          IF i \in ids
                          THEN [Blank EXCEPT !.kind = "submitted", !.caller = p,
                                             !.issuer = issuer, !.key = keyOf(i),
                                             !.viaPR = TRUE, !.pc = "submitted"]
                          ELSE IF i = p
                          THEN [m0[p] EXCEPT !.call =
                                  [NoCall EXCEPT !.kind = "prun", !.keys = K, !.workers = ids,
                                                 !.pc = "collecting", !.issuer = issuer]]
                          ELSE m0[i]], issuer)
    /\ UNCHANGED <<containers, store, cfg, threads, stack, thread, ball>>

\* manager.py:146-148 with 128-136  a pool thread starts execute_task
WorkerStart(c) ==
    /\ mgr[c].kind = "submitted"
    /\ mgr' = [mgr EXCEPT ![c] = RunStartRec(c, mgr[c].caller, mgr[c].key, mgr[c].issuer, TRUE)]
    /\ UNCHANGED <<containers, store, cfg, threads, stack, thread, ball>>

\* manager.py:155  results[key] = result
CollectResultMut(results, k, v) == results
CollectResult(results, k, v) == [results EXCEPT ![k] = v]

\* manager.py:153-156  as_completed yields a finished future; result()
\* re-raises what the worker raised, which leaves the loop
Collect(p, c) ==
    /\ mgr[p].call.kind = "prun" /\ mgr[p].call.pc = "collecting"
    /\ c \in mgr[p].call.workers
    /\ mgr[c].pc = "done" /\ mgr[c].key \notin mgr[p].call.collected
    /\ mgr' = IF mgr[c].outcome = "raised"
              THEN [mgr EXCEPT ![p].call.pc = "exiting", ![p].call.error = mgr[c].error,
                               ![p].call.collected = @ \cup {mgr[c].key}]
              ELSE [mgr EXCEPT ![p] =
                      [Set(@, mgr[c].key, mgr[c].returned) EXCEPT
                          !.call.results = CollectResult(@, mgr[c].key, mgr[c].returned),
                          !.call.collected = @ \cup {mgr[c].key}]]
    /\ UNCHANGED <<containers, store, cfg, threads, stack, thread, ball>>

\* manager.py:151,158  the loop is over, the pool is shut down (all workers
\* are done), results is returned
ParallelRunReturn(p) ==
    /\ mgr[p].call.kind = "prun" /\ mgr[p].call.pc = "collecting"
    /\ mgr[p].call.collected = mgr[p].call.keys
    /\ mgr' = FinishCall(mgr, p,
                [NoLast EXCEPT !.kind = "prun", !.status = "returned",
                               !.keys = mgr[p].call.keys, !.workers = mgr[p].call.workers,
                               !.results = mgr[p].call.results,
                               !.collected = mgr[p].call.collected])
    /\ UNCHANGED <<containers, store, cfg, threads, stack, thread, ball>>

\* manager.py:151  leaving the with block shuts the pool down with
\* wait=True: submitted tasks are not cancelled and every one of them has
\* run to its end when the block is left
PoolShutdownWaitedMut(m, workers) == TRUE
PoolShutdownWaited(m, workers) == \A c \in workers : m[c].pc = "done"

\* manager.py:151  the exception leaves the with block: the pool's exit
\* waits for every worker, then parallel_run raises; results is dropped
ParallelRunRaise(p) ==
    /\ mgr[p].call.kind = "prun" /\ mgr[p].call.pc = "exiting"
    /\ PoolShutdownWaited(mgr, mgr[p].call.workers)
    /\ mgr' = FinishCall(mgr, p,
                [NoLast EXCEPT !.kind = "prun", !.status = "raised",
                               !.keys = mgr[p].call.keys, !.workers = mgr[p].call.workers,
                               !.collected = mgr[p].call.collected,
                               !.error = mgr[p].call.error])
    /\ UNCHANGED <<containers, store, cfg, threads, stack, thread, ball>>


\* ------------------------------------------------- callers and contexts
\* Who may call the context side of p: the caller of the root manager while
\* the root is not inside a call, or a task inside think of manager e, on e
\* itself (think is handed self, manager.py:108) or on a context manager
\* made for e by the compiler's maker (manager.py:73-79).
CanIssue(issuer, p) ==
    \/ /\ issuer = NoId /\ p = 0
       /\ mgr[0].pc = "idle" /\ mgr[0].call.kind = "none"
    \/ /\ issuer \in Ids /\ mgr[issuer].pc = "think"
       /\ \/ p = issuer
          \/ mgr[p].kind = "ctx" /\ mgr[p].caller = issuer

Issuers == Ids \cup {NoId}

Run(issuer, p, k) == CanIssue(issuer, p) /\ StartRun(issuer, p, k)

ParallelRun(issuer, p, K) == CanIssue(issuer, p) /\ StartParallelRun(issuer, p, K)

\* manager.py:68-87 with 44-56  the maker registered by compiler(step) makes
\* the task's AIFuncCtx: self.sub_manager(step), once per step (singleton)
CompilerCtx(e) ==
    /\ mgr[e].pc = "think" /\ mgr[e].hasAttrs
    /\ NextId(mgr) < MaxManagers
    /\ ~\E x \in Ids : mgr[x].kind = "ctx" /\ mgr[x].caller = e /\ mgr[x].step = mgr[e].step
    /\ LET x == NextId(mgr)
           sd == NewStepDepth(mgr[e].frameDepth)
       IN  mgr' = [mgr EXCEPT ![x] =
                IF DepthExceeded(sd, SubManagerMaxDepth(mgr[e].max_depth))
                THEN [Blank EXCEPT !.kind = "failed", !.caller = e, !.pc = "done",
                                   !.outcome = "raised", !.error = "RecursionLimit"]
                ELSE [NewManager("ctx", SubManagerContainer(mgr[e].container, x), sd,
                                 SubManagerMaxDepth(mgr[e].max_depth),
                                 SubManagerMaxStep(mgr[e].max_step))
                        EXCEPT !.caller = e, !.step = mgr[e].step,
                               !.chainNo = mgr[e].chainNo]]
    /\ UNCHANGED <<containers, store, cfg, threads, stack, thread, ball>>

\* manager.py:169-179  destroy() called on the root manager by its owner
Destroy ==
    /\ mgr[0].pc = "idle" /\ mgr[0].call.kind = "none"
    /\ mgr[0].destroyCalls < MaxDestroyCalls
    /\ mgr' = [mgr EXCEPT ![0] = DestroyRec(@)]
    /\ containers' = DestroyContainers(containers, mgr[0])
    /\ UNCHANGED <<store, cfg, threads, stack, thread, ball>>

\* what a finishing think may hand back for the task run under mgr[e].key
ThinkResults(e) == {None} \cup {MkResult(t, mgr[e].key) : t \in ResultTags}

\* ------------------------------------------- threads on one result store
\* manager.py:137-138,156,164  `self._values[key] = value` is one dict item
\* assignment.  The class takes no lock of its own ("python dict is thread
\* safe"): the interpreter lets one thread at a time mutate a dict, so a
\* thread enters the assignment only when no thread is inside one.
DictLockFreeMut(inside) == TRUE
DictLockFree(inside) == inside = {}

\* what execute of the task submitted under key k returns when it succeeds
TaskResult(k) == MkResult("Declared", k)

\* manager.py:136-139  run(key, fn) whose execute succeeds, seen from the
\* caller's store: the result is stored under key
RunOnStore(r, k) == Set(r, k, TaskResult(k))

\* run(key, task) called for the keys of order, one after the other
RECURSIVE SeqRunStore(_, _)
SeqRunStore(r, order) ==
    IF order = <<>> THEN r ELSE SeqRunStore(RunOnStore(r, Head(order)), Tail(order))

\* the values those run calls return, by key
SeqRunResults(order) ==
    [k \in Keys |-> IF \E i \in 1 .. Len(order) : order[i] = k THEN TaskResult(k) ELSE None]

\* the orders in which the entries of a mapping over Keys can be run
Orders == {<<"a", "b">>, <<"b", "a">>}

\* values a caller of set may pass
SetValues == {MkResult(t, "set") : t \in {"Declared", "Other"}}

\* a thread enters the item assignment _values[k] = v
DictSetItemBegin(st, t, k, v) ==
    [st EXCEPT !.inside = @ \cup {t}, !.pc[t] = "writing", !.arg[t] = [key |-> k, value |-> v]]

\* manager.py:163-164  set(key, value) called by the owner of the manager
SetCall(k, v) ==
    /\ store.mode = "idle" /\ store.pc["owner"] = "idle"
    /\ DictLockFree(store.inside)
    /\ store' = [DictSetItemBegin(store, "owner", k, v) EXCEPT
                    !.prevSet[k] = store.lastSet[k], !.lastSet[k] = v,
                    !.runWrote = @ \ {k}, !.got = NoGot, !.lastPrun = "none"]
    /\ UNCHANGED <<mgr, containers, cfg, threads, stack, thread, ball>>

\* the item assignment takes effect and the thread leaves it
DictSetItemEnd(t) ==
    /\ store.pc[t] = "writing"
    /\ LET k == store.arg[t].key
           st == Set(store, k, store.arg[t].value)
       IN  store' = [st EXCEPT
                        !.inside = @ \ {t}, !.arg[t] = NoArg,
                        !.pc[t] = IF t = "owner" THEN "idle" ELSE "returned",
                        !.runWrote = IF t = "owner" /\ store.mode = "idle" THEN @ ELSE @ \cup {k},
                        !.collected = IF t = "owner" /\ store.mode = "prun" THEN @ \cup {k} ELSE @]
    /\ UNCHANGED <<mgr, containers, cfg, threads, stack, thread, ball>>

\* manager.py:160-161  get(key) called by the owner of the manager
GetCall(k) ==
    /\ store.mode = "idle" /\ store.pc["owner"] = "idle"
    /\ store' = [store EXCEPT !.got = [n |-> 1 - store.got.n, key |-> k,
                                       value |-> Get(store, k)]]
    /\ UNCHANGED <<mgr, containers, cfg, threads, stack, thread, ball>>

\* manager.py:150-152  parallel_run submits one execute_task per key
StoreParallelRun ==
    /\ store.mode = "idle" /\ store.pc["owner"] = "idle"
    /\ store' = [store EXCEPT !.mode = "prun", !.collected = {}, !.got = NoGot,
                              !.before = store.values, !.results = EmptyStore,
                              !.lastPrun = "none",
                              !.pc = [t \in Threads |-> IF t \in Workers THEN "running" ELSE "idle"]]
    /\ UNCHANGED <<mgr, containers, cfg, threads, stack, thread, ball>>

\* manager.py:136  execute of the worker's task returns a result
WorkerExecuteReturn(w) ==
    /\ store.pc[w] = "running"
    /\ store' = [store EXCEPT !.pc[w] = "store",
                              !.arg[w] = [key |-> WorkerKey(w),
                                          value |-> TaskResult(WorkerKey(w))]]
    /\ UNCHANGED <<mgr, containers, cfg, threads, stack, thread, ball>>

\* manager.py:136  execute of the worker's task raises: run stores nothing
WorkerExecuteRaise(w) ==
    /\ store.pc[w] = "running"
    /\ store' = [store EXCEPT !.pc[w] = "raised"]
    /\ UNCHANGED <<mgr, containers, cfg, threads, stack, thread, ball>>

\* manager.py:138  the worker's run stores its result in the shared store
WorkerStoreBegin(w) ==
    /\ store.pc[w] = "store"
    /\ DictLockFree(store.inside)
    /\ store' = DictSetItemBegin(store, w, store.arg[w].key, store.arg[w].value)
    /\ UNCHANGED <<mgr, containers, cfg, threads, stack, thread, ball>>

\* manager.py:153-156  the collecting loop takes a completed future and
\* stores its result again
CollectStoreBegin(k) ==
    /\ store.mode = "prun" /\ store.pc["owner"] = "idle"
    /\ store.pc[KeyWorker(k)] = "returned" /\ k \notin store.collected
    /\ DictLockFree(store.inside)
    /\ store' = [DictSetItemBegin(store, "owner", k, TaskResult(k)) EXCEPT
                    !.results = CollectResult(@, k, TaskResult(k))]
    /\ UNCHANGED <<mgr, containers, cfg, threads, stack, thread, ball>>

\* manager.py:154  future.result() re-raises: the loop is left
CollectRaise(k) ==
    /\ store.mode = "prun" /\ store.pc["owner"] = "idle"
    /\ store.pc[KeyWorker(k)] = "raised" /\ k \notin store.collected
    /\ store' = [store EXCEPT !.mode = "exiting"]
    /\ UNCHANGED <<mgr, containers, cfg, threads, stack, thread, ball>>

\* manager.py:151,158  the pool is shut down once every worker is done
StoreParallelRunEnd ==
    /\ store.pc["owner"] = "idle"
    /\ \/ store.mode = "prun" /\ store.collected = Keys
       \/ store.mode = "exiting"
    /\ \A w \in Workers : store.pc[w] \in {"returned", "raised"}
    /\ store' = [store EXCEPT !.mode = "idle", !.collected = {},
                              !.pc = [t \in Threads |-> "idle"],
                              !.lastPrun = IF store.mode = "prun" THEN "returned" ELSE "raised"]
    /\ UNCHANGED <<mgr, containers, cfg, threads, stack, thread, ball>>

\* set, get and parallel_run on the store of the provider's root manager
NextStore ==
    \/ \E k \in Keys, v \in SetValues : SetCall(k, v)
    \/ \E t \in Threads : DictSetItemEnd(t)
    \/ \E k \in Keys : GetCall(k)
    \/ StoreParallelRun
    \/ \E w \in Workers : WorkerExecuteReturn(w)
    \/ \E w \in Workers : WorkerExecuteRaise(w)
    \/ \E w \in Workers : WorkerStoreBegin(w)
    \/ \E k \in Keys : CollectStoreBegin(k)
    \/ \E k \in Keys : CollectRaise(k)
    \/ StoreParallelRunEnd

SpecStore == InitPar /\ [][NextStore]_vars

\* --------------------------------- sub_manager and get_driver by themselves
\* manager.py:44-56 with 19-42  sub_manager(step) on the configured manager:
\* the constructor call raises on a step deeper than max_depth
CfgSubManager(step) ==
    /\ cfg.exec.pc = "idle"
    /\ cfg' = [cfg EXCEPT !.sub =
          IF DepthExceeded(SubManagerStep(step), SubManagerMaxDepth(cfg.parent.max_depth))
          THEN [NoSub EXCEPT !.raised = TRUE, !.given = step]
          ELSE [made |-> TRUE, raised |-> FALSE, given |-> step,
                llm_api_name |-> SubManagerLlmApiName(cfg.parent.llm_api_name),
                default_driver_type |->
                    InitDefaultDriver(SubManagerDefaultDriver(cfg.parent.default_driver_type)),
                max_depth |-> SubManagerMaxDepth(cfg.parent.max_depth),
                max_step |-> SubManagerMaxStep(cfg.parent.max_step),
                exec_step |-> SubManagerStep(step)]]
    /\ UNCHANGED <<mgr, containers, store, threads, stack, thread, ball>>

\* the default driver type of the manager an execute call runs on
CfgDefaultDriver(on) ==
    IF on = "sub" THEN cfg.sub.default_driver_type ELSE cfg.parent.default_driver_type

\* manager.py:89-96  execute(fn) is entered, on the manager or on its sub
\* manager, for a task whose class declares a driver type or none
CfgExecuteBegin(on, declared) ==
    /\ cfg.exec.pc \in {"idle", "over"}
    /\ on = "sub" => cfg.sub.made
    /\ cfg' = [cfg EXCEPT !.exec = [NoExec EXCEPT !.pc = "get_driver", !.on = on,
                                                  !.declared = declared]]
    /\ UNCHANGED <<mgr, containers, store, threads, stack, thread, ball>>

\* manager.py:97 with 117-126  driver = self.get_driver(fn): one instance
CfgGetDriver ==
    /\ cfg.exec.pc = "get_driver"
    /\ cfg' = [cfg EXCEPT !.exec.pc = "loop",
                          !.exec.driver = GetDriver(cfg.exec.declared,
                                                    CfgDefaultDriver(cfg.exec.on)),
                          !.exec.instances = @ + 1,
                          !.exec.thread = InitThread, !.exec.finished = FALSE]
    /\ UNCHANGED <<mgr, containers, store, threads, stack, thread, ball>>

\* manager.py:102-108  an iteration calls think on the driver made at line 97
\* think is given the local thread and its returned thread and finished flag
\* are assigned
CfgThink(t, fin) ==
    /\ cfg.exec.pc = "loop" /\ cfg.exec.thinks < MaxThinks
    /\ ~LoopExit(cfg.exec.finished, cfg.exec.thinks)
    /\ cfg' = [cfg EXCEPT !.exec.thinks = @ + 1,
                          !.exec.passed = cfg.exec.thread,
                          !.exec.thread = ThinkThread(cfg.exec.thread, t),
                          !.exec.lastOut = t,
                          !.exec.finished = fin]
    /\ UNCHANGED <<mgr, containers, store, threads, stack, thread, ball>>

\* manager.py:110-115  the loop is left and execute is over
CfgExecuteEnd ==
    /\ cfg.exec.pc = "loop" /\ cfg.exec.thinks >= 1
    /\ LoopExit(cfg.exec.finished, cfg.exec.thinks)
    /\ cfg' = [cfg EXCEPT !.exec.pc = "over"]
    /\ UNCHANGED <<mgr, containers, store, threads, stack, thread, ball>>

\* a manager constructed with any default driver, model-API name, maximum
\* depth and maximum steps
InitConfig ==
    /\ mgr = [i \in Ids |-> Blank]
    /\ containers = [c \in Ids |-> [destroyed |-> FALSE, releases |-> 0]]
    /\ store = StoreInit
    /\ thread = NoThread
    /\ ball = NoBall
    /\ threads = NoThreads
    /\ stack = <<>>
    /\ \E dd \in DefaultDriverArgs, n \in LlmApiNames, d \in MaxDepthValues, s \in MaxStepValues :
          cfg = CfgOf(dd, n, d, s)

NextConfig ==
    \/ \E step \in 0 .. (MaxDepthBound + 1) : CfgSubManager(step)
    \/ \E on \in {"self", "sub"}, declared \in DeclaredDrivers : CfgExecuteBegin(on, declared)
    \/ CfgGetDriver
    \/ \E t \in ThreadStates, fin \in BOOLEAN : CfgThink(t, fin)
    \/ CfgExecuteEnd

SpecConfig == InitConfig /\ [][NextConfig]_vars

\* ------------------------------------------- one execute call to its end
\* The calls of execute that are open on one thread, outermost first: a
\* run made inside think calls execute on a sub manager and comes back to
\* that think.  A frame holds what the loop of execute reads: the
\* manager's max_step, max_depth and exec_step, the frame's depth, the
\* step counter, and the error a nested run gave to the current think.
MaxRunsPerThink == 1

\* the step counter is only compared with max_step <= DefaultMaxStep:
\* every value above DefaultMaxStep compares alike
StepCap == DefaultMaxStep + 1

\* manager.py:103  step += 1
NextStep(step) == IF step < StepCap THEN step + 1 ELSE step

LiveFrame(exec_step, frameDepth, max_depth, max_step) ==
    [exec_step |-> exec_step, frameDepth |-> frameDepth, max_depth |-> max_depth,
     max_step |-> max_step, step |-> 0, pc |-> "loop", runs |-> 0,
     lastErr |-> "", outcome |-> ""]

\* manager.py:89-101  execute(fn) called on a manager made with max_depth D
\* and max_step S and no step; the frame is ExecFrame.from_func(fn)
InitLive ==
    /\ mgr = [i \in Ids |-> Blank]
    /\ containers = [c \in Ids |-> [destroyed |-> FALSE, releases |-> 0]]
    /\ store = StoreInit
    /\ thread = NoThread
    /\ ball = NoBall
    /\ cfg = CfgOf(NoDriver, "", DefaultMaxDepth, DefaultMaxStep)
    /\ threads = NoThreads
    /\ \E D \in MaxDepthValues, S \in MaxStepValues :
          stack = <<LiveFrame(NoStep, FromFuncDepth, D, S)>>

\* execute is left with the outcome: the outermost call keeps it, a nested
\* one hands it to the think that called run (an error is raised there)
LiveEnd(outcome) ==
    LET n == Len(stack) IN
        IF n = 1
        THEN <<[stack[1] EXCEPT !.pc = "done", !.outcome = outcome]>>
        ELSE [SubSeq(stack, 1, n - 1) EXCEPT
                 ![n - 1].lastErr = IF outcome \in {"result", "none"} THEN "" ELSE outcome]

LiveTop == stack[Len(stack)]

\* manager.py:102-107  one turn of the loop up to the call of think
LiveLoopStep ==
    /\ stack # <<>> /\ LiveTop.pc = "loop"
    /\ LET step == NextStep(LiveTop.step) IN
           stack' = IF StepLimitExceeded(step, LiveTop.max_step)
                    THEN LiveEnd("StepLimit")
                    ELSE [stack EXCEPT ![Len(stack)] =
                             [@ EXCEPT !.step = step, !.pc = "think", !.runs = 0,
                                       !.lastErr = ""]]
    /\ UNCHANGED <<mgr, containers, store, cfg, threads, thread, ball>>

\* manager.py:108-114  think returns (thread, result, finished)
LiveThinkReturn(finished, result) ==
    /\ stack # <<>> /\ LiveTop.pc = "think"
    /\ stack' = IF LoopExit(finished, LiveTop.step)
                THEN LiveEnd(IF ResultInvalid(result) THEN "TypeError"
                             ELSE IF result = None THEN "none" ELSE "result")
                ELSE [stack EXCEPT ![Len(stack)].pc = "loop"]
    /\ UNCHANGED <<mgr, containers, store, cfg, threads, thread, ball>>

\* manager.py:108  think raises: an error of its own, or the error a
\* nested run gave it
LiveThinkRaise(own) ==
    /\ stack # <<>> /\ LiveTop.pc = "think"
    /\ own \/ LiveTop.lastErr # ""
    /\ stack' = LiveEnd(IF own THEN "ThinkError" ELSE LiveTop.lastErr)
    /\ UNCHANGED <<mgr, containers, store, cfg, threads, thread, ball>>

\* manager.py:128-136 with 19-56  the task calls run inside think: on the
\* manager think was handed (manager.py:108, self) or on the AIFuncCtx the
\* compiler's maker builds from the step (manager.py:68-87).  Either
\* constructor raises on a step deeper than max_depth.
LiveRun(viaCtx) ==
    /\ stack # <<>> /\ LiveTop.pc = "think"
    /\ LiveTop.runs < MaxRunsPerThink
    /\ LET f == LiveTop
           n == Len(stack)
           ctxStep == NewStepDepth(f.frameDepth)
           D == SubManagerMaxDepth(f.max_depth)
           on == IF viaCtx THEN ctxStep ELSE f.exec_step
           fd == RunFrameDepth(on)
           sd == NewStepDepth(fd)
           raised == [stack EXCEPT ![n] =
                         [@ EXCEPT !.runs = @ + 1, !.lastErr = "RecursionLimit"]]
       IN  stack' =
             IF (viaCtx /\ DepthExceeded(ctxStep, D)) \/ DepthExceeded(sd, D)
             THEN raised
             ELSE Append([stack EXCEPT ![n].runs = @ + 1],
                         LiveFrame(sd, fd, D, SubManagerMaxStep(f.max_step)))
    /\ UNCHANGED <<mgr, containers, store, cfg, threads, thread, ball>>

NextLive ==
    \/ LiveLoopStep
    \/ \E finished \in BOOLEAN, tag \in {"None", "Declared", "Invalid"} :
          LiveThinkReturn(finished, IF tag = "None" THEN None ELSE MkResult(tag, "a"))
    \/ \E own \in BOOLEAN : LiveThinkRaise(own)
    \/ \E viaCtx \in BOOLEAN : LiveRun(viaCtx)

\* the thread that called execute keeps running while it has a step to take
SpecLive == InitLive /\ [][NextLive]_vars /\ WF_vars(NextLive)

\* ------------------------------------------- operations on one thread
\* threads.py:122-151  a thread as new(event, pycontext=...) returns it,
\* for either class
InitTurns ==
    /\ mgr = [i \in Ids |-> Blank]
    /\ containers = [c \in Ids |-> [destroyed |-> FALSE, releases |-> 0]]
    /\ store = StoreInit
    /\ cfg = CfgOf(NoDriver, "", DefaultMaxDepth, DefaultMaxStep)
    /\ threads = NoThreads
    /\ stack = <<>>
    /\ ball = NoBall
    /\ \E cls \in ThreadClasses, event \in Events, pycontext \in {NonePy, "py1"} :
          thread = [NoThread EXCEPT
                       !.op = "new",
                       !.obj = ThreadNew(cls, event, pycontext, NoneId, NoneId, NoneId),
                       !.args = [NoArgs EXCEPT !.event = event, !.pycontext = pycontext]]

\* the event and turn_id a caller gives new_turn
NewTurnArgs == {<<NoEvent, NoneId>>, <<"e1", NoneId>>, <<NoEvent, "t1">>}

\* the state after a call that changes the thread in place, with the
\* arguments of new and new_turn
ThreadCalled(op, obj, args) ==
    [NoThread EXCEPT !.op = op, !.obj = obj, !.args = args]

\* threads.py:207-229  thread.new_turn(event, turn_id=..., pycontext=...)
ThreadNewTurn(event, turn_id, pycontext) ==
    /\ thread.op # ""
    /\ thread.obj.current = NoTurn \/ Len(thread.obj.history) < MaxTurns
    /\ thread' = ThreadCalled("new_turn", NewTurn(thread.obj, event, turn_id, pycontext),
                              [NoArgs EXCEPT !.event = event, !.thread_id = turn_id,
                                             !.pycontext = pycontext])
    /\ UNCHANGED <<mgr, containers, store, cfg, threads, stack, ball>>

\* threads.py:231-241 / 232-244  thread.append(*messages, pycontext=...)
\* with n messages
ThreadAppend(n, pycontext) ==
    /\ thread.op # ""
    /\ thread.obj.current.added + n <= MaxAdded
    /\ thread' = ThreadCalled("append",
                              IF thread.obj.cls = "GoThreadInfo"
                              THEN GoThreadInfoAppend(thread.obj, n, pycontext)
                              ELSE MsgThreadAppend(thread.obj, n, pycontext),
                              NoArgs)
    /\ UNCHANGED <<mgr, containers, store, cfg, threads, stack, ball>>

\* threads.py:178-181  thread.update_pycontext(pycontext)
ThreadUpdatePycontext(pycontext) ==
    /\ thread.op # ""
    /\ thread' = ThreadCalled("update_pycontext", UpdatePycontext(thread.obj, pycontext),
                              NoArgs)
    /\ UNCHANGED <<mgr, containers, store, cfg, threads, stack, ball>>

\* threads.py:183-194  got = thread.get_updated_copy(), and once more on
\* what it returned; the caller goes on with the thread itself or with
\* the copy
ThreadGetUpdatedCopy(adopt) ==
    /\ thread.op # ""
    /\ thread.obj.current = NoTurn \/ Len(thread.obj.history) < MaxTurns
    /\ LET r == GetUpdatedCopy(thread.obj) IN
           thread' = [op |-> "get_updated_copy",
                      obj |-> IF adopt THEN r.ret ELSE r.self,
                      orig |-> r.self, ret |-> r.ret, twice |-> GetUpdatedCopy(r.ret).ret,
                      same |-> r.same, args |-> NoArgs]
    /\ UNCHANGED <<mgr, containers, store, cfg, threads, stack, ball>>

NextTurns ==
    \/ \E a \in NewTurnArgs, pycontext \in {NonePy} \cup PyContexts :
          ThreadNewTurn(a[1], a[2], pycontext)
    \/ \E n \in 0 .. MaxAdded, pycontext \in {NonePy} \cup PyContexts : ThreadAppend(n, pycontext)
    \/ \E pycontext \in PyContexts : ThreadUpdatePycontext(pycontext)
    \/ \E adopt \in BOOLEAN : ThreadGetUpdatedCopy(adopt)

SpecTurns == InitTurns /\ [][NextTurns]_vars

\* ------------------------------------------------------ forks of a thread
\* an unforked thread of either class
InitThreads ==
    /\ mgr = [i \in Ids |-> Blank]
    /\ containers = [c \in Ids |-> [destroyed |-> FALSE, releases |-> 0]]
    /\ store = StoreInit
    /\ thread = NoThread
    /\ ball = NoBall
    /\ cfg = CfgOf(NoDriver, "", DefaultMaxDepth, DefaultMaxStep)
    /\ stack = <<>>
    /\ \E cls \in ThreadClasses, body \in {"turns1", "turns2"} :
          threads = [cls |-> cls, objs |-> <<NewThread(Uuids[1], body)>>, uuids |-> 1,
                     given |-> <<>>]

\* threads.py:253-258 / 256-261  fork(tid) called on the i-th thread object;
\* src records which object the new one was forked from
ForkThread(i, tid) ==
    /\ i \in 1 .. Len(threads.objs)
    /\ Len(threads.objs) <= MaxForks
    /\ LET t == threads.objs[i]
           fresh == Uuids[threads.uuids + 1]
           forked == IF threads.cls = "GoThreadInfo" THEN GoThreadInfoFork(t, tid, fresh)
                     ELSE MsgThreadFork(t, tid, fresh)
       IN  threads' = [threads EXCEPT
                          !.objs = Append(@, [forked EXCEPT !.src = i]),
                          !.uuids = IF Truthy(tid) THEN @ ELSE @ + 1]
    /\ UNCHANGED <<mgr, containers, store, cfg, stack, thread, ball>>

NextThreads == \E i \in 1 .. (MaxForks + 1), tid \in GivenTids : ForkThread(i, tid)

SpecThreads == InitThreads /\ [][NextThreads]_vars

\* ------------------------------------------------- calls on the ball api
\* shell_impl.py:167-180  BallApi(runtime, memory_cache): the saved moves
\* are read from the cache file when there is one
InitBall ==
    /\ mgr = [i \in Ids |-> Blank]
    /\ containers = [c \in Ids |-> [destroyed |-> FALSE, releases |-> 0]]
    /\ store = StoreInit
    /\ cfg = CfgOf(NoDriver, "", DefaultMaxDepth, DefaultMaxStep)
    /\ threads = NoThreads
    /\ stack = <<>>
    /\ thread = NoThread
    /\ \E cached \in {NoSaved, SavedMoveNew("spin", "d1", {})} :
          LET moves == [n \in MoveNames |-> IF n = cached.name THEN cached ELSE NoSaved] IN
              ball = [NoBall EXCEPT !.moves = moves, !.file = moves]

BallCalled(op, name, description, outcome, error, sent) ==
    [op |-> op, name |-> name, description |-> description, outcome |-> outcome,
     error |-> error, sent |-> sent]

\* shell_impl.py:186-187 with 57-66  move = ball.new_move(run_immediately)
BallNewMove(run_immediately) ==
    /\ ball' = [ball EXCEPT
                   !.move = [kind |-> "MoveAdapter", run_immediately |-> run_immediately,
                             move_added |-> 0, buffer |-> {}],
                   !.last = BallCalled("new_move", "", "", "returned", "", 0)]
    /\ UNCHANGED <<mgr, containers, store, cfg, threads, stack, thread>>

\* shell_impl.py:68-84  move.roll(...): _add_move hands the movement to
\* the runtime at once, in both branches, and counts it
BallMoveRoll ==
    /\ IsMoveAdapter(ball.move)
    /\ ball.sent < MaxSent
    /\ ball' = [ball EXCEPT !.move.move_added = @ + 1, !.sent = @ + 1,
                            !.lastSent = {"roll"},
                            !.last = BallCalled("roll", "", "", "returned", "", 1)]
    /\ UNCHANGED <<mgr, containers, store, cfg, threads, stack, thread>>

\* shell_impl.py:132-151  move.on_collision(...): the event's moves go
\* into the buffer
BallMoveOnEvent(e) ==
    /\ IsMoveAdapter(ball.move)
    /\ ball' = [ball EXCEPT !.move.buffer = @ \cup {e},
                            !.last = BallCalled(e, "", "", "returned", "", 0)]
    /\ UNCHANGED <<mgr, containers, store, cfg, threads, stack, thread>>

\* what a call that may send a movement leaves behind
BallSent(b, r, op, name) ==
    [b EXCEPT !.sent = @ + r.sends,
              !.lastSent = IF r.sends > 0 THEN r.movement ELSE @,
              !.last = BallCalled(op, name, "", r.outcome, r.error, r.sends)]

\* shell_impl.py:189-194  ball.run(move) with the move being built
BallRun ==
    /\ ball.sent < MaxSent
    /\ ball' = BallSent(ball, BallApiRun(ball.move), "run", "")
    /\ UNCHANGED <<mgr, containers, store, cfg, threads, stack, thread>>

\* shell_impl.py:196-201 with 182-184  ball.save_move(name, description, move)
BallSaveMove(name, description) ==
    /\ ball' = IF ~IsMoveAdapter(ball.move)
               THEN [ball EXCEPT !.last = BallCalled("save_move", name, description,
                                                     "raised", "TypeError", 0)]
               ELSE LET moves == AddSaved(ball.moves,
                                          SavedMoveNew(name, description, ball.move.buffer))
                    IN  [ball EXCEPT !.moves = moves, !.file = moves,
                                     !.saved = @ \cup {name},
                                     !.last = BallCalled("save_move", name, description,
                                                         "returned", "", 0)]
    /\ UNCHANGED <<mgr, containers, store, cfg, threads, stack, thread>>

\* shell_impl.py:217-221  ball.run_move(name)
BallRunMove(name) ==
    /\ ball.sent < MaxSent
    /\ ball' = BallSent(ball, BallApiRunMove(ball.moves, name), "run_move", name)
    /\ UNCHANGED <<mgr, containers, store, cfg, threads, stack, thread>>

NextBall ==
    \/ \E run_immediately \in BOOLEAN : BallNewMove(run_immediately)
    \/ BallMoveRoll
    \/ \E e \in MoveEvents : BallMoveOnEvent(e)
    \/ BallRun
    \/ \E name \in MoveNames, description \in Descriptions : BallSaveMove(name, description)
    \/ \E name \in MoveNames : BallRunMove(name)

SpecBall == InitBall /\ [][NextBall]_vars

\* ------------------------------------------- a thread made by new, forked
InitNew ==
    /\ mgr = [i \in Ids |-> Blank]
    /\ containers = [c \in Ids |-> [destroyed |-> FALSE, releases |-> 0]]
    /\ store = StoreInit
    /\ cfg = CfgOf(NoDriver, "", DefaultMaxDepth, DefaultMaxStep)
    /\ threads = NoThreads
    /\ stack = <<>>
    /\ thread = NoThread
    /\ ball = NoBall

\* threads.py:122-151 (runtime), 123-152 (session)
\* cls.new(event, thread_id=..., root_id=..., parent_id=...); given keeps
\* the three ids of the call, body the id of the first turn
NewCall(cls, event, thread_id, root_id, parent_id) ==
    /\ threads.objs = <<>>
    /\ LET t == ThreadNew(cls, event, NonePy, thread_id, root_id, parent_id) IN
           threads' = [cls |-> cls,
                       objs |-> <<[id |-> t.id, root_id |-> t.root_id,
                                   parent_id |-> t.parent_id,
                                   body |-> t.on_created.turn_id, src |-> 0]>>,
                       uuids |-> t.uuids,
                       given |-> <<thread_id, root_id, parent_id>>]
    /\ UNCHANGED <<mgr, containers, store, cfg, stack, thread, ball>>

NextNew ==
    \/ \E cls \in ThreadClasses, event \in Events, thread_id \in GivenTids,
          root_id \in {NoneId, "r"}, parent_id \in {NoneId, "p"} :
          NewCall(cls, event, thread_id, root_id, parent_id)
    \/ \E i \in 1 .. (MaxForks + 1), tid \in GivenTids : ForkThread(i, tid)

SpecNew == InitNew /\ [][NextNew]_vars

\* execute, nested run and destroy, one thread
Next ==
    \/ ExecuteRoot
    \/ Destroy
    \/ \E e \in Ids : LoopStep(e)
    \/ \E e \in Ids : \E res \in ThinkResults(e) : ThinkReturn(e, res, TRUE)
    \/ \E e \in Ids : ThinkReturn(e, None, FALSE)
    \/ \E e \in Ids : ThinkRaise(e)
    \/ \E e \in Ids : CompilerCtx(e)
    \/ \E i \in Issuers, p \in Ids, k \in Keys : Run(i, p, k)
    \/ \E c \in Ids : RunStore(c)
    \/ \E c \in Ids : RunFinally(c)

Spec == Init /\ [][Next]_vars

\* run and parallel_run on the provider's root manager: the pool's worker
\* threads interleave with each other and with the collecting thread
NextPar ==
    \/ \E e \in Ids : LoopStep(e)
    \/ \E e \in Ids : \E res \in ThinkResults(e) : ThinkReturn(e, res, TRUE)
    \/ \E e \in Ids : ThinkReturn(e, None, FALSE)
    \/ \E e \in Ids : ThinkRaise(e)
    \/ \E i \in Issuers, p \in Ids, k \in Keys : Run(i, p, k)
    \/ \E i \in Issuers, p \in Ids, K \in SUBSET Keys : ParallelRun(i, p, K)
    \/ \E c \in Ids : WorkerStart(c)
    \/ \E c \in Ids : RunStore(c)
    \/ \E c \in Ids : RunFinally(c)
    \/ \E p \in Ids, c \in Ids : Collect(p, c)
    \/ \E p \in Ids : ParallelRunReturn(p)
    \/ \E p \in Ids : ParallelRunRaise(p)

SpecPar == InitPar /\ [][NextPar]_vars

\* ===================================================================
\* Properties
\* ===================================================================
Children == {c \in Ids : mgr[c].kind = "run"}

\* C1: destroy() on an already destroyed manager is a no-op: it does not
\* raise and the resource scope is released once at most.
C1_DestroyIdempotent ==
    \A m \in Ids :
        mgr[m].destroyCalls >= 2 =>
            /\ ~mgr[m].destroyRaised
            /\ containers[mgr[m].container].releases <= 1

\* C2: once run(key, task) on p has returned or raised, p's own resource
\* scope is still undestroyed.
C2_ParentScopeSurvivesRun ==
    \A p \in Ids :
        (mgr[p].lastCall.kind = "run" /\ mgr[p].lastCall.child # NoId /\ mgr[p].hasAttrs)
            => ~containers[mgr[p].container].destroyed

\* C3: no two live managers hold the same resource-scope object.
C3_ScopesNotShared ==
    \A i, j \in Live :
        (i # j /\ mgr[i].hasAttrs /\ mgr[j].hasAttrs) => mgr[i].container # mgr[j].container

\* a launch that failed in the sub manager's constructor, seen on the
\* manager run was called on
FailedLaunch(p) ==
    /\ mgr[p].lastCall.kind = "run" /\ mgr[p].lastCall.status = "raised"
    /\ mgr[p].lastCall.child = NoId /\ mgr[p].lastCall.error = "RecursionLimit"

\* C4 as stated: with maximum depth D the (D+1)-th nested launch fails with
\* the recursion-limit error and launches 1..D succeed.
C4_FailsAtDPlus1 ==
    /\ \A c \in Children : mgr[c].chainNo <= mgr[c].max_depth
    /\ \A p \in Ids : FailedLaunch(p) => mgr[p].lastCall.chainNo = mgr[p].max_depth + 1

\* C4 amended: a nested launch fails with the recursion-limit error exactly
\* when the depth of its new frame exceeds D; the frame of the n-th launch
\* of a chain has depth n-1 (chain begun by run on the step-less root
\* manager) or n (chain begun on a context manager bound to a root step), so
\* launches 1..D succeed, the (D+2)-th fails, and the (D+1)-th fails only
\* with frame depth D+1.
C4_FailsWhenDepthExceeds ==
    /\ \A c \in Children :
          /\ mgr[c].frameDepth <= mgr[c].max_depth
          /\ mgr[c].exec_step = mgr[c].frameDepth
          /\ mgr[c].frameDepth \in {mgr[c].chainNo - 1, mgr[c].chainNo}
          /\ mgr[c].chainNo <= mgr[c].max_depth + 1
          /\ (mgr[mgr[c].caller].exec_step = NoStep => mgr[c].frameDepth = 0)
    /\ \A p \in Ids : FailedLaunch(p) =>
          /\ mgr[p].lastCall.frameDepth = mgr[p].max_depth + 1
          /\ mgr[p].lastCall.frameDepth \in {mgr[p].lastCall.chainNo - 1, mgr[p].lastCall.chainNo}
          /\ mgr[p].lastCall.chainNo >= mgr[p].max_depth + 1

\* C4 witness: the (D+2)-th launch of a chain failed on a manager that is
\* itself the (D+1)-th launch
C4_Witness ==
    \E p \in Children :
        /\ FailedLaunch(p)
        /\ mgr[p].lastCall.chainNo = mgr[p].max_depth + 2
        /\ mgr[p].chainNo = mgr[p].max_depth + 1

\* an execute call that has begun and whose locals are still on record
InExecute(e) == mgr[e].kind \in {"root", "run"} /\ mgr[e].pc # "done"

\* C5 as stated: for every maximum steps S think is invoked at most S times
\* and the step-limit error comes after exactly S think calls.
C5_StepLimitEveryS ==
    \A e \in Ids : InExecute(e) =>
        /\ mgr[e].thinks <= mgr[e].max_step
        /\ (mgr[e].error = "StepLimit" => mgr[e].thinks = mgr[e].max_step)

\* C5 amended: for every maximum steps S >= 1 think is invoked at most S
\* times and the step-limit error is raised after exactly S think calls
\* that did not finish; with S = 0 there is no limit and no step-limit error.
C5_StepLimitPositiveS ==
    \A e \in Ids : InExecute(e) =>
        /\ (mgr[e].max_step >= 1 => mgr[e].thinks <= mgr[e].max_step)
        /\ (mgr[e].error = "StepLimit" =>
              /\ mgr[e].max_step >= 1
              /\ mgr[e].thinks = mgr[e].max_step
              /\ mgr[e].step = mgr[e].max_step + 1
              /\ ~mgr[e].finished
              /\ mgr[e].outcome = "raised")
        /\ (mgr[e].max_step = 0 => mgr[e].error # "StepLimit")

\* C5 witness: an execute with the largest configured limit has raised the
\* step-limit error after that many think calls
C5_Witness ==
    \E e \in Ids :
        /\ InExecute(e) /\ mgr[e].error = "StepLimit"
        /\ mgr[e].max_step = MaxStepBound /\ mgr[e].thinks = MaxStepBound

\* C6 as stated: when the first think returns finished=true, execute calls
\* think once and returns that call's result.
C6_FirstFinishedReturns ==
    \A e \in Ids : (InExecute(e) /\ mgr[e].firstFinished) =>
        /\ mgr[e].thinks = 1
        /\ mgr[e].outcome = "returned"
        /\ mgr[e].returned = mgr[e].firstResult

\* C6 amended: when the first think returns finished=true, execute calls
\* think once and is over; it returns that call's result unless the result
\* is a non-None object that is no AIFuncResult, and then it raises the
\* result-type error.
C6_FirstFinishedOnce ==
    \A e \in Ids : (InExecute(e) /\ mgr[e].firstFinished) =>
        /\ mgr[e].thinks = 1
        /\ mgr[e].pc \notin {"loop", "think", "blocked"}
        /\ IF mgr[e].firstResult.tag = "Invalid"
           THEN mgr[e].outcome = "raised" /\ mgr[e].error = "TypeMismatch"
           ELSE mgr[e].outcome = "returned" /\ mgr[e].returned = mgr[e].firstResult

\* C6 witness: an execute whose first think finished with a result of the
\* declared type has returned it
C6_Witness ==
    \E e \in Ids :
        /\ InExecute(e) /\ mgr[e].firstFinished /\ mgr[e].thinks = 1
        /\ mgr[e].outcome = "returned" /\ mgr[e].returned.tag = "Declared"

\* ---------------------------------------------------------------------
\* a parallel_run call on p that is over, and its workers
ParallelRunOver(p) == mgr[p].lastCall.kind = "prun" /\ mgr[p].lastCall.keys # {}
WorkerOf(p, k) == CHOOSE c \in mgr[p].lastCall.workers : mgr[c].key = k
WorkerSucceeded(c) == mgr[c].pc = "done" /\ mgr[c].outcome = "returned"
WorkerRaised(c) == mgr[c].pc = "done" /\ mgr[c].outcome = "raised"

\* C7: when every task of parallel_run succeeds the returned mapping has
\* exactly the keys of tasks, each with its own task's result, and get(key)
\* on the calling manager gives the same result.
C7_ParallelRunAllSucceed ==
    \A p \in Ids :
        (ParallelRunOver(p) /\ \A c \in mgr[p].lastCall.workers : WorkerSucceeded(c)) =>
            /\ mgr[p].lastCall.status = "returned"
            /\ mgr[p].lastCall.collected = mgr[p].lastCall.keys
            /\ \A k \in Keys \ mgr[p].lastCall.keys : mgr[p].lastCall.results[k] = None
            /\ \A k \in mgr[p].lastCall.keys :
                  /\ mgr[p].lastCall.results[k] = mgr[WorkerOf(p, k)].returned
                  /\ mgr[p].lastCall.results[k].by \in {k, ""}
                  /\ Get(mgr[p], k) = mgr[WorkerOf(p, k)].returned

\* C7 witness: parallel_run over both keys has returned with both results
C7_Witness ==
    \E p \in Ids :
        /\ ParallelRunOver(p) /\ mgr[p].lastCall.status = "returned"
        /\ mgr[p].lastCall.keys = Keys
        /\ \A k \in Keys : mgr[p].lastCall.results[k].tag = "Declared"

\* C8: parallel_run with a succeeding task a and a raising task b returns
\* with a in the result mapping.
C8_PartialFailureReturnsMapping ==
    \A p \in Ids :
        (/\ ParallelRunOver(p) /\ mgr[p].lastCall.keys = {"a", "b"}
         /\ WorkerSucceeded(WorkerOf(p, "a")) /\ WorkerRaised(WorkerOf(p, "b"))) =>
            /\ mgr[p].lastCall.status = "returned"
            /\ "a" \in mgr[p].lastCall.collected
            /\ mgr[p].lastCall.results["a"] = mgr[WorkerOf(p, "a")].returned

\* C9: a final result that is not None and not of the task's declared
\* result type makes execute fail with the result-type error.
C9_WrongTypeRaises ==
    \A e \in Ids :
        (/\ InExecute(e) /\ mgr[e].finished
         /\ mgr[e].result # None /\ mgr[e].result.tag # "Declared") =>
            /\ mgr[e].outcome = "raised"
            /\ mgr[e].error = "TypeMismatch"

\* C10: every child manager made by run, directly or in a parallel_run
\* worker, has had destroy() called and its scope released when that run is
\* over, whether execute returned or raised.
ChildDestroyed(c) ==
    /\ mgr[c].destroyCalls >= 1 /\ ~mgr[c].hasAttrs
    /\ containers[mgr[c].container].destroyed

C10_ChildDestroyedAfterRun ==
    /\ \A c \in Children : mgr[c].pc = "done" => ChildDestroyed(c)
    /\ \A p \in Ids :
          /\ (mgr[p].lastCall.kind = "run" /\ mgr[p].lastCall.child # NoId)
                => mgr[mgr[p].lastCall.child].pc = "done"
          /\ mgr[p].lastCall.kind = "prun"
                => \A c \in mgr[p].lastCall.workers : mgr[c].pc = "done"

\* C10 witness: a parallel_run is over in which one worker's execute raised
\* and its sibling's returned, and the failed worker's child is destroyed
C10_Witness ==
    \E c, d \in Children :
        /\ mgr[c].viaPR /\ mgr[c].pc = "done" /\ mgr[c].outcome = "raised"
        /\ mgr[c].error = "ThinkError" /\ ChildDestroyed(c)
        /\ mgr[d].viaPR /\ mgr[d].pc = "done" /\ mgr[d].outcome = "returned"
        /\ mgr[mgr[c].caller].lastCall.kind = "prun"

\* ---------------------------------------------------------------------
\* a run call on p that is over and returned a value
RunReturned(p) ==
    /\ mgr[p].lastCall.kind = "run" /\ mgr[p].lastCall.status = "returned"
    /\ mgr[p].lastCall.child # NoId

\* C11: when run(key, task) on p has returned (and p has not been destroyed
\* since), get(key) on p gives the
\* value run returned; the assignment that stores it writes p's store and
\* leaves the store of the child manager as it was, and the child's store is
\* gone when run is over.
C11_RunStoresInCaller ==
    /\ [](\A p \in Ids : (RunReturned(p) /\ mgr[p].hasAttrs) =>
            /\ \A k \in mgr[p].lastCall.keys : Get(mgr[p], k) = mgr[p].lastCall.value
            /\ mgr[p].lastCall.value = mgr[mgr[p].lastCall.child].returned
            /\ ~mgr[mgr[p].lastCall.child].hasAttrs)
    /\ [][\A c \in Ids :
            (mgr[c].kind = "run" /\ mgr[c].pc = "store" /\ mgr'[c].pc = "finally") =>
                /\ Get(mgr'[mgr[c].caller], mgr[c].key) = mgr[c].returned
                /\ mgr'[c].values = mgr[c].values]_vars

\* C11 witness: a nested run on a child manager has returned a result that
\* is now in that manager's store
C11_Witness ==
    \E p \in Children :
        /\ RunReturned(p) /\ mgr[p].hasAttrs /\ mgr[p].lastCall.value.tag = "Declared"
        /\ \A k \in mgr[p].lastCall.keys : Get(mgr[p], k) = mgr[p].lastCall.value

C13_SiblingsRunToCompletion ==
    \A p \in Ids : ParallelRunOver(p) =>
        /\ \A c \in mgr[p].lastCall.workers :
              /\ mgr[c].kind \in {"run", "failed"} /\ mgr[c].viaPR
              /\ WorkerSucceeded(c) \/ WorkerRaised(c)
        /\ mgr[p].lastCall.status = "returned" =>
              \A c \in mgr[p].lastCall.workers : WorkerSucceeded(c)
        /\ mgr[p].lastCall.status = "raised" =>
              \E c \in mgr[p].lastCall.workers :
                  /\ WorkerRaised(c) /\ mgr[c].error = mgr[p].lastCall.error
                  /\ mgr[c].key \in mgr[p].lastCall.collected

\* C13 witness: parallel_run raised the failure of worker b before it had
\* collected worker a, and a has nevertheless run to a successful end
C13_Witness ==
    \E p \in Ids :
        /\ ParallelRunOver(p) /\ mgr[p].lastCall.status = "raised"
        /\ mgr[p].lastCall.keys = Keys /\ mgr[p].lastCall.collected = {"b"}
        /\ WorkerRaised(WorkerOf(p, "b")) /\ WorkerSucceeded(WorkerOf(p, "a"))

\* ---------------------------------------------------------------------
\* C14: when parallel_run is over and at least one worker failed, the
\* result of every worker that succeeded is in the calling manager's store
\* under its key, whether the collecting loop reached that worker before
\* the failing one or not.
C14_SuccessStoredDespiteFailure ==
    \A p \in Ids :
        (ParallelRunOver(p) /\ \E c \in mgr[p].lastCall.workers : WorkerRaised(c)) =>
            \A c \in mgr[p].lastCall.workers :
                WorkerSucceeded(c) => Get(mgr[p], mgr[c].key) = mgr[c].returned

\* C14 witness: worker b failed and was collected first; worker a's result,
\* never collected, is in the caller's store
C14_Witness ==
    \E p \in Ids :
        /\ ParallelRunOver(p) /\ mgr[p].lastCall.keys = Keys
        /\ WorkerRaised(WorkerOf(p, "b")) /\ "a" \notin mgr[p].lastCall.collected
        /\ WorkerSucceeded(WorkerOf(p, "a")) /\ mgr[WorkerOf(p, "a")].returned.tag = "Declared"
        /\ Get(mgr[p], "a") = mgr[WorkerOf(p, "a")].returned

\* ---------------------------------------------------------------------
\* C15: on a live manager get(key) returns the value of the most recent
\* set(key, v), None when the key was never written (a key that a run
\* stored under since then holds that run's result instead), and a get
\* leaves the store as it was.
C15_GetReturnsLastSet ==
    /\ []((store.got.key # "" /\ store.got.key \notin store.runWrote) =>
            store.got.value = store.lastSet[store.got.key])
    /\ [][(store'.got # store.got /\ store'.got.key # "") =>
            /\ store'.values = store.values
            /\ store'.got.value = Get(store, store'.got.key)]_vars

\* C15 witness: a key was set, set again to another value, and get has
\* returned the second value
C15_Witness ==
    /\ store.got.key = "a" /\ "a" \notin store.runWrote
    /\ store.prevSet["a"] # None /\ store.prevSet["a"] # store.lastSet["a"]
    /\ store.got.value = store.lastSet["a"]

\* ---------------------------------------------------------------------
\* C16: execute drives the task with the driver type its class declares,
\* and with the manager's default driver type when it declares none; one
\* driver instance is made per execute call, before the first think.
C16_DriverSelection ==
    /\ cfg.exec.pc = "get_driver" => (cfg.exec.instances = 0 /\ cfg.exec.thinks = 0)
    /\ cfg.exec.pc \in {"loop", "over"} =>
          /\ cfg.exec.instances = 1
          /\ cfg.exec.declared # NoDriver => cfg.exec.driver = cfg.exec.declared
          /\ cfg.exec.declared = NoDriver =>
                cfg.exec.driver = CfgDefaultDriver(cfg.exec.on)

\* C16 witness: an execute of a task that declares its own driver type, on
\* a manager configured with another default, is over after two thinks
C16_Witness ==
    /\ cfg.exec.pc = "over" /\ cfg.exec.thinks = 2 /\ cfg.exec.on = "self"
    /\ cfg.exec.declared = "TaskDriver" /\ cfg.exec.driver = "TaskDriver"
    /\ cfg.parent.default_driver_type = "CustomDriver"

\* C17: a manager returned by sub_manager(step) has the model-API name,
\* the default driver type and the maximum depth of the manager that made
\* it, and is bound to the step it was given.
C17_SubManagerShares ==
    cfg.sub.made =>
        /\ cfg.sub.llm_api_name = cfg.parent.llm_api_name
        /\ cfg.sub.default_driver_type = cfg.parent.default_driver_type
        /\ cfg.sub.max_depth = cfg.parent.max_depth
        /\ cfg.sub.exec_step = cfg.sub.given

\* C17 witness: a sub manager of a manager with non-default settings, bound
\* to a step of depth 1
C17_Witness ==
    /\ cfg.sub.made /\ cfg.sub.given = 1 /\ cfg.sub.exec_step = 1
    /\ cfg.parent.llm_api_name = "gpt" /\ cfg.sub.llm_api_name = "gpt"
    /\ cfg.parent.default_driver_type = "CustomDriver"
    /\ cfg.parent.max_depth = 1 /\ cfg.sub.max_depth = 1

\* ---------------------------------------------------------------------
\* C18: when think raises in iteration k, execute is over with that
\* failure after exactly k think calls, no further iteration is made, and
\* a run that called the execute raises the same failure to its caller.
C18_ThinkFailureNoRetry ==
    /\ \A e \in Ids : (InExecute(e) /\ mgr[e].error = "ThinkError") =>
          /\ mgr[e].outcome = "raised"
          /\ mgr[e].thinks = mgr[e].step
          /\ mgr[e].pc \notin {"loop", "think", "blocked", "store"}
    /\ \A p \in Ids :
          (/\ mgr[p].lastCall.kind = "run" /\ mgr[p].lastCall.child # NoId
           /\ mgr[mgr[p].lastCall.child].error = "ThinkError") =>
              /\ mgr[p].lastCall.status = "raised"
              /\ mgr[p].lastCall.error = "ThinkError"

\* C18 witness: think raised in the second iteration of a nested execute
C18_Witness ==
    \E e \in Children :
        /\ InExecute(e) /\ mgr[e].error = "ThinkError" /\ mgr[e].outcome = "raised"
        /\ mgr[e].thinks = 2 /\ mgr[e].step = 2

\* ---------------------------------------------------------------------
\* managers that still rely on their resource scope while worker c of a
\* parallel_run tears down: the manager parallel_run was called on, and the
\* children of sibling workers whose run is not over
UsingScopeBeside(c) ==
    {m \in Ids \ {c} :
        /\ mgr[m].hasAttrs
        /\ \/ m = mgr[c].caller
           \/ /\ mgr[m].kind = "run" /\ mgr[m].viaPR
              /\ mgr[m].caller = mgr[c].caller /\ mgr[m].pc # "done"}

\* C19: the destroy that ends a parallel_run worker's run destroys no
\* resource scope that the parent manager or a sibling worker's child
\* manager is still using.
C19_WorkerTeardownIsolated ==
    [][\A c \in Ids :
         (/\ mgr[c].kind = "run" /\ mgr[c].viaPR
          /\ mgr[c].pc = "finally" /\ mgr'[c].pc = "done") =>
             \A m \in UsingScopeBeside(c) :
                 containers'[mgr[m].container].destroyed =>
                     containers[mgr[m].container].destroyed]_vars

\* ---------------------------------------------------------------------
\* C20: the frame run makes on a manager bound to a step of depth d has
\* depth d+1 and on a manager without a step depth 0, as has the frame of
\* an execute given no frame; the child manager is bound to a step of its
\* frame's depth; from a run to a run nested in it the depth grows by 1.
C20_FrameDepths ==
    /\ \A c \in Children :
          /\ mgr[mgr[c].caller].exec_step # NoStep =>
                mgr[c].frameDepth = mgr[mgr[c].caller].exec_step + 1
          /\ mgr[mgr[c].caller].exec_step = NoStep => mgr[c].frameDepth = 0
          /\ mgr[c].exec_step = mgr[c].frameDepth
          /\ (mgr[c].issuer # NoId /\ mgr[mgr[c].issuer].kind = "run") =>
                mgr[c].frameDepth = mgr[mgr[c].issuer].frameDepth + 1
    /\ (mgr[0].kind = "root" /\ mgr[0].pc \in {"loop", "think", "blocked"}) =>
          mgr[0].frameDepth = 0

\* C20 witness: a run nested in the think of a child of depth 0, made on
\* that child (bound to a step of depth 0), has a frame of depth 1
C20_Witness ==
    \E c \in Children :
        /\ mgr[c].issuer # NoId /\ mgr[mgr[c].issuer].kind = "run"
        /\ mgr[mgr[c].issuer].frameDepth = 0
        /\ mgr[c].caller = mgr[c].issuer /\ mgr[mgr[c].caller].exec_step = 0
        /\ mgr[c].frameDepth = 1 /\ mgr[c].exec_step = 1 /\ mgr[c].pc = "think"

\* ---------------------------------------------------------------------
\* C21: the number of steps created for a frame never exceeds the maximum
\* steps (when a limit is set) of the manager that executes the frame.
C21_FrameStepsWithinLimit ==
    \A e \in Ids :
        (InExecute(e) /\ mgr[e].max_step >= 1) => mgr[e].frameSteps <= mgr[e].max_step

\* C22: one step is created per think iteration: while the k-th think of a
\* frame runs and after it, the frame has k steps, and a frame whose
\* execute is over has as many steps as think calls.
C22_OneStepPerThink ==
    \A e \in Ids :
        (InExecute(e) /\ mgr[e].pc \in {"think", "blocked", "store", "finally", "idle"}) =>
            mgr[e].frameSteps = mgr[e].thinks

\* C25: after destroy() the manager's destroyed flag is set.
C25_DestroyedFlagSet ==
    \A m \in Ids : mgr[m].destroyCalls >= 1 => mgr[m].destroyed

\* C27: a child manager made by run works under the maximum steps of the
\* manager run was called on.
C27_ChildInheritsMaxStep ==
    \A c \in Children : mgr[c].max_step = mgr[mgr[c].caller].max_step

\* C28: parallel_run with an empty mapping returns (an empty mapping)
\* without raising.
C28_EmptyParallelRunReturns ==
    \A p \in Ids :
        (mgr[p].lastCall.kind = "prun" /\ mgr[p].lastCall.keys = {}) =>
            /\ mgr[p].lastCall.status = "returned"
            /\ mgr[p].lastCall.results = EmptyStore

\* ---------------------------------------------------------------------
\* C26: a run that fails writes nothing: a child whose execute raised never
\* reaches the assignment to the caller's store, and the store of a live
\* manager changes only by the assignment of a child whose execute
\* returned, under that child's key; a failed launch makes no child at all.
C26_FailedRunKeepsStore ==
    /\ [](\A c \in Children : mgr[c].outcome = "raised" => mgr[c].pc \in {"finally", "done"})
    /\ [](\A p \in Ids : FailedLaunch(p) => mgr[p].lastCall.child = NoId)
    /\ [][\A p \in Ids :
            (/\ mgr[p].hasAttrs /\ mgr'[p].hasAttrs
             /\ mgr[p].kind \in {"root", "run", "ctx"} /\ mgr'[p].kind = mgr[p].kind
             /\ mgr'[p].values # mgr[p].values) =>
                \E c \in Ids :
                    /\ mgr[c].kind = "run" /\ mgr[c].caller = p
                    /\ mgr[c].pc = "store" /\ mgr'[c].pc = "finally"
                    /\ mgr[c].outcome = "returned"
                    /\ mgr'[p].values = [mgr[p].values EXCEPT ![mgr[c].key] = mgr[c].returned]]_vars

\* C26 witness: a run under a key has failed in a think and the result an
\* earlier run stored under the same key is still there
C26_Witness ==
    \E p \in Ids :
        /\ mgr[p].hasAttrs
        /\ mgr[p].lastCall.kind = "run" /\ mgr[p].lastCall.status = "raised"
        /\ mgr[p].lastCall.error = "ThinkError"
        /\ \A k \in mgr[p].lastCall.keys : Get(mgr[p], k).tag = "Declared"

\* ---------------------------------------------------------------------
\* C24: within one execute the first think is given the thread initialize
\* returned, every later think the thread the think before it returned,
\* a think is invoked only while none has returned finished=true, and the
\* loop is left only after one has.
C24_ThinksSequential ==
    /\ [][cfg'.exec.thinks = cfg.exec.thinks + 1 =>
            /\ ~cfg.exec.finished
            /\ cfg'.exec.passed = IF cfg.exec.thinks = 0 THEN InitThread ELSE cfg.exec.lastOut]_vars
    /\ [](cfg.exec.pc = "over" => cfg.exec.finished)
    /\ [](cfg.exec.thinks >= 1 => cfg.exec.thread = cfg.exec.lastOut)

\* C24 witness: the second think of an execute was given the thread that
\* the first one returned, which is not the one initialize gave
C24_Witness ==
    /\ cfg.exec.pc = "over" /\ cfg.exec.thinks = 2 /\ cfg.exec.finished
    /\ cfg.exec.passed = 2 /\ cfg.exec.lastOut = 1

\* ---------------------------------------------------------------------
\* C29: when every task of parallel_run over distinct keys succeeds, the
\* returned mapping and the caller's store are those that run(key, task)
\* called for the entries one after the other gives, in either order, from
\* the store as it was before the call.
C29_ParallelEqualsSequential ==
    store.lastPrun = "returned" =>
        \A order \in Orders :
            /\ store.values = SeqRunStore([values |-> store.before], order).values
            /\ store.results = SeqRunResults(order)

\* C29 witness: a parallel_run over both keys has returned on a store that
\* held a value set under key a and nothing under key b
C29_Witness ==
    /\ store.lastPrun = "returned" /\ store.mode = "idle"
    /\ store.before["a"] \in SetValues /\ store.before["b"] = None
    /\ store.values["a"] = TaskResult("a") /\ store.results["b"] = TaskResult("b")

\* ---------------------------------------------------------------------
\* C23 as stated: for every maximum steps and maximum depth and every
\* Driver, the execute call eventually reaches a terminal state.
C23_ExecuteTerminates == <>(stack # <<>> /\ stack[1].pc = "done")

\* C23 amended: every execute call on a manager whose max_step is not 0,
\* the outermost and every nested one, eventually ends (returns, or
\* raises the step-limit error, the result-type error or what think
\* raised), whatever think returns and however the task recurses.
C23_TerminatesWithLimit ==
    \A n \in 1 .. (MaxDepthBound + 2) :
        (Len(stack) >= n /\ stack[n].max_step # 0 /\ stack[n].pc # "done")
            ~> (Len(stack) < n \/ stack[n].pc = "done")

\* C23 witness: an execute with max_step 1 has ended with the step-limit
\* error of a nested run whose task never finished
C23_Witness ==
    /\ stack # <<>> /\ stack[1].pc = "done" /\ stack[1].max_step = 1
    /\ stack[1].outcome = "StepLimit" /\ stack[1].lastErr = "StepLimit"

\* ---------------------------------------------------------------------
\* C30: a forked thread has the id of the thread it was forked from as
\* parent_id and that thread's root_id, or its id when it has none, as
\* root_id; fork leaves the thread it is called on (and every other
\* thread) as it was; every descendant of the unforked thread R has R's id
\* as root_id.
C30_ForkKeepsRoot ==
    /\ [](\A i \in 2 .. Len(threads.objs) :
            LET f == threads.objs[i]
                t == threads.objs[f.src]
            IN  /\ f.parent_id = t.id
                /\ f.root_id = IF t.root_id # NoneId THEN t.root_id ELSE t.id
                /\ f.root_id = threads.objs[1].id
                /\ f.body = t.body)
    /\ [][\A i \in 1 .. Len(threads.objs) : threads'.objs[i] = threads.objs[i]]_vars

\* C30 witness: a fork of a fork of a fork of R, made with a given id
C30_Witness ==
    \E i \in 2 .. Len(threads.objs) :
        LET f == threads.objs[i] IN
            /\ f.src > 1 /\ threads.objs[f.src].src > 1
            /\ f.id = "x" /\ f.root_id = "u1" /\ f.parent_id # "u1"

\* ---------------------------------------------------------------------
\* C31: new_turn appends the current turn, if there is one, to the end of
\* the history (one more entry, the earlier ones as they were) and makes
\* a fresh turn current; new_turn, append and update_pycontext never
\* shorten or change the history and leave a current turn.
C31_NewTurnKeepsTurns ==
    [][thread'.op \in {"new_turn", "append", "update_pycontext"} =>
        LET h == thread.obj.history
            h2 == thread'.obj.history
            cur == thread.obj.current
        IN  /\ Len(h2) >= Len(h) /\ SubSeq(h2, 1, Len(h)) = h
            /\ thread'.obj.current # NoTurn
            /\ thread'.op = "new_turn" =>
                  /\ h2 = IF cur # NoTurn THEN Append(h, cur) ELSE h
                  /\ thread'.obj.current.added = 0
                  /\ thread'.obj.current.event = thread'.args.event
            /\ thread'.op # "new_turn" /\ cur # NoTurn => h2 = h]_vars

\* C31 witness: the second new_turn on a thread whose first turn got a
\* message: both earlier turns are in the history, in order
C31_Witness ==
    /\ thread.op = "new_turn" /\ Len(thread.obj.history) = 2
    /\ thread.obj.history[1].added = 1 /\ thread.obj.history[2].event = "e1"
    /\ thread.obj.current # NoTurn

\* ---------------------------------------------------------------------
\* C32: get_updated_copy (update_history) returns a thread with no
\* current turn whose history is the original history followed by the
\* original current turn, everything else as in the original, and does
\* not change the original; on a thread without a current turn it
\* returns the thread itself, so applying it to its own result gives
\* the same thread state.
C32_UpdatedCopy ==
    [][thread'.op = "get_updated_copy" =>
        LET t == thread.obj
            ret == thread'.ret
        IN  /\ thread'.orig = t
            /\ ret.current = NoTurn
            /\ ret.history = IF t.current # NoTurn THEN Append(t.history, t.current)
                              ELSE t.history
            /\ ret = [t EXCEPT !.history = ret.history, !.current = NoTurn]
            /\ t.current = NoTurn => thread'.same /\ ret = t
            /\ thread'.twice = ret]_vars

\* C32 witness: a copy of a thread with one history turn and a current
\* turn that has a message
C32_Witness ==
    /\ thread.op = "get_updated_copy" /\ ~thread.same
    /\ thread.orig.current # NoTurn /\ thread.orig.current.added = 1
    /\ Len(thread.orig.history) = 1 /\ Len(thread.ret.history) = 2
    /\ thread.ret.current = NoTurn

\* ---------------------------------------------------------------------
\* C33: new_turn without a pycontext gives the new current turn the
\* pycontext of the last turn before the call (the current turn, else
\* the last history turn, else on_created), so get_pycontext returns
\* after the call what it returned before.
C33_NewTurnKeepsPycontext ==
    [][thread'.op = "new_turn" /\ thread'.args.pycontext = NonePy =>
        /\ thread'.obj.current.pycontext = LastTurn(thread.obj).pycontext
        /\ GetPycontext(thread'.obj) = GetPycontext(thread.obj)]_vars

\* C33 witness: new_turn without pycontext after the current turn was
\* given a pycontext other than the default: the new turn has it
C33_Witness ==
    /\ thread.op = "new_turn" /\ thread.args.pycontext = NonePy
    /\ Len(thread.obj.history) = 2
    /\ thread.obj.history[1].pycontext = DefaultPy
    /\ thread.obj.history[2].pycontext = "py1"
    /\ thread.obj.current.pycontext = "py1"

\* ---------------------------------------------------------------------
\* C34: new called with thread_id = X returns a thread whose id is X,
\* with root_id and parent_id as given.
C34_NewKeepsThreadId ==
    threads.objs # <<>> /\ threads.given # <<>> /\ threads.given[1] # NoneId =>
        /\ threads.objs[1].id = threads.given[1]
        /\ threads.objs[1].root_id = threads.given[2]
        /\ threads.objs[1].parent_id = threads.given[3]

\* ---------------------------------------------------------------------
\* C35: run_move of a name saved by save_move sends the saved movement to
\* the runtime (one add_movement) and does not raise; run_move of a name
\* never saved raises and sends nothing; save_move under a name that is
\* already saved replaces the earlier move.
C35_RunMoveSendsSaved ==
    /\ ball.last.op = "run_move" /\ ball.last.name \in ball.saved =>
          /\ ball.last.outcome = "returned" /\ ball.last.sent = 1
          /\ ball.lastSent = ball.moves[ball.last.name].move_meta
    /\ ball.last.op = "run_move" /\ ball.moves[ball.last.name] = NoSaved =>
          ball.last.outcome = "raised" /\ ball.last.sent = 0
    /\ ball.last.op = "save_move" /\ ball.last.outcome = "returned" =>
          ball.moves[ball.last.name] =
              SavedMoveNew(ball.last.name, ball.last.description, ball.move.buffer)

====
